---- MODULE Spec2Model ----
(***************************************************************************)
(* Group-search scan engine of the memory search core                      *)
(* (search/engine/group_search.rs, search/engine/manager.rs).              *)
(*                                                                         *)
(* Addresses are natural numbers, a byte is a natural number, a buffer is  *)
(* a sequence of bytes (TLA+ index i+1 holds Rust index i).  The page size *)
(* and the value domains are scaled down; the arithmetic is the code's.    *)
(***************************************************************************)
EXTENDS Integers, Sequences, FiniteSets, TLC

VARIABLES
    mem,               \* target memory: address -> byte
    query,             \* SearchQuery: [values, mode, range]
    deep,              \* use_deep_search flag of search_memory
    start,             \* region start
    end,               \* region end (exclusive)
    per_chunk_size,    \* chunk size handed to search_region_group
    current,           \* address of the next chunk
    is_first_chunk,
    prev_chunk_valid,
    sliding_buffer,    \* 2 * per_chunk_size bytes
    results,           \* BPlusTreeSet<ValuePair> of the region
    pc,                \* "loop" while current < end is being iterated, "done" after return,
                       \* "panicked" or "wrapped" after the underflow of the overlap address
    buffer_ok,         \* history: per byte of sliding_buffer, was its page read successfully
    emitted,           \* history: one record per match handed to results.insert
    reads,             \* history: one record per chunk read
    regions,           \* search_memory: the region list, a sequence of <<start, end>>
    all_results,       \* search_memory: per region index, the worker's outcome
    completed,         \* history: the region indexes in the order the workers finished
    result_mgr,        \* the result store: the items handed to it since it was last cleared
    callbacks,         \* history: the on_search_complete calls, each with the number of its call
    ret,               \* what the current call returned
    call,              \* the current call: [op, callback, n], and the history of total_addresses
    lock_poisoned,     \* DRIVER_MANAGER's lock is poisoned
    mpc,               \* position of the manager: "none", "new", "idle", "fanout", "refining",
                       \* "waiting", "returned", "panicked"
    rwlock,            \* DRIVER_MANAGER's RwLock: read guards held, position of a writer
    filter,            \* SearchEngineManager.filter
    got,               \* history: what the last get_results under this filter returned
    progress_buffer,   \* SearchEngineManager.progress_buffer: [some, ptr, len]
    channel,           \* the progress channels, one per updater task: queued updates, live senders
    updater,           \* the progress updater tasks spawned so far: [ptr, len, beats]
    progress_updater,  \* the sender the current call holds: the index of its channel, 0 for None
    completed_regions, \* AtomicUsize of search_memory
    total_found_count, \* AtomicI64 of search_memory
    workers,           \* per region index, the worker's position and progress locals
    writes,            \* history: the writes made to host memory through a ProgressBuffer
    refine_current,    \* refine_search: current_results, read from the store before it is cleared
    progress_monitor,  \* the monitor tasks of refine_search, with the counters they share
    match_buffer,       \* the buffer slice handed to try_match_group_at_address
    match_result       \* what try_match_group_at_address returned for it

\* the locals of one region scan
svars == <<start, end, current, is_first_chunk, prev_chunk_valid, sliding_buffer,
           results, pc, buffer_ok, emitted, reads>>

\* the state of the manager and of its current call
mvars == <<regions, all_results, completed, result_mgr, callbacks, ret, call,
           lock_poisoned, mpc>>

\* the filter of the manager and the last enumeration
fvars == <<filter, got>>

\* progress reporting of search_memory
pvars == <<progress_buffer, channel, updater, progress_updater, completed_regions,
           total_found_count, workers, writes>>

\* progress reporting of refine_search
rvars == <<refine_current, progress_monitor>>

\* one call of the group matcher on its own
tvars == <<match_buffer, match_result>>

vars == <<mem, query, deep, start, end, per_chunk_size, current, is_first_chunk,
          prev_chunk_valid, sliding_buffer, results, pc, buffer_ok, emitted, reads,
          regions, all_results, completed, result_mgr, callbacks, ret, call,
          lock_poisoned, mpc, rwlock, filter, got, progress_buffer, channel, updater,
          progress_updater, completed_regions, total_found_count, workers, writes,
          refine_current, progress_monitor, match_buffer, match_result>>

-----------------------------------------------------------------------------
(* Bounds of the model *)

\* number of bytes of modelled target memory (addresses 0 .. MemSize-1)
MemSize == 8

\* largest number of non-zero bytes in the modelled target memory
MaxMarks == 3

\* the byte values written to target memory (0 is the background)
ByteVals == {0, 1, 2}

-----------------------------------------------------------------------------
(* Arithmetic helpers *)

Min(a, b) == IF a <= b THEN a ELSE b

Max(a, b) == IF a >= b THEN a ELSE b

\* u64/usize saturating_sub
saturating_sub(a, b) == IF a >= b THEN a - b ELSE 0

\* buffer[lo..hi) of a Rust slice
Slice(buffer, lo, hi) == SubSeq(buffer, lo + 1, hi)

\* ascending enumeration of a finite set of naturals
RECURSIVE SortedSeq(_)
SortedSeq(S) ==
    IF S = {} THEN <<>>
    ELSE LET m == CHOOSE x \in S : \A y \in S : x <= y
         IN <<m>> \o SortedSeq(S \ {m})

-----------------------------------------------------------------------------
(* Pages *)

\* PAGE_SIZE of the platform (sysconf, fallback 4096), scaled down
PAGE_SIZE == 4

\* addr & PAGE_MASK, PAGE_MASK = !(PAGE_SIZE - 1)
PageAlign(addr) == addr - (addr % PAGE_SIZE)

\* PageStatusBitmap::new(len, base_addr): pages indexed from the page of base_addr
PageStatusBitmap_new(len, base_addr) ==
    LET n == ((base_addr % PAGE_SIZE) + len + PAGE_SIZE - 1) \div PAGE_SIZE
    IN [base |-> base_addr, bits |-> [i \in 1..n |-> FALSE]]

num_pages(ps) == Len(ps.bits)

is_page_success(ps, i) == i < Len(ps.bits) /\ ps.bits[i + 1]

mark_success(ps, i) ==
    IF i < Len(ps.bits) THEN [ps EXCEPT !.bits[i + 1] = TRUE] ELSE ps

success_count(ps) == Cardinality({i \in 1..Len(ps.bits) : ps.bits[i]})

\* get_success_page_ranges: coalesced half-open page-index intervals, ascending
RECURSIVE RangesFrom(_, _)
RangesFrom(bits, i) ==
    IF i >= Len(bits) THEN <<>>
    ELSE IF ~bits[i + 1] THEN RangesFrom(bits, i + 1)
    ELSE LET stops == {j \in (i + 1)..Len(bits) : j = Len(bits) \/ ~bits[j + 1]}
             e == CHOOSE j \in stops : \A k \in stops : j <= k
         IN <<<<i, e>>>> \o RangesFrom(bits, e)

get_success_page_ranges(ps) == RangesFrom(ps.bits, 0)

-----------------------------------------------------------------------------
(* Values and queries *)

ValueTypes == {"Byte", "Word", "Dword", "Qword", "Float", "Double"}

\* ValueType::size
size(t) ==
    CASE t = "Byte" -> 1
      [] t = "Word" -> 2
      [] t = "Dword" -> 4
      [] t = "Float" -> 4
      [] t = "Qword" -> 8
      [] t = "Double" -> 8

\* SearchValue::FixedInt { value, value_type }: value holds the little-endian bytes
FixedInt(bytes, t) == [kind |-> "FixedInt", value |-> bytes, value_type |-> t]

\* SearchValue::Range { lo, hi, value_type } (unsigned), inclusive
RangeVal(lo, hi, t) == [kind |-> "Range", lo |-> lo, hi |-> hi, value_type |-> t]

\* little-endian decoding of a byte slice
RECURSIVE DecodeLE(_)
DecodeLE(bytes) ==
    IF bytes = <<>> THEN 0 ELSE bytes[1] + 256 * DecodeLE(Tail(bytes))

\* SearchValue::matched(bytes) == Ok(true)
matched(v, bytes) ==
    /\ Len(bytes) = size(v.value_type)
    /\ IF v.kind = "FixedInt"
       THEN bytes = SubSeq(v.value, 1, size(v.value_type))
       ELSE v.lo <= DecodeLE(bytes) /\ DecodeLE(bytes) <= v.hi

RECURSIVE SumSizes(_)
SumSizes(values) ==
    IF values = <<>> THEN 0
    ELSE size(values[1].value_type) + SumSizes(Tail(values))

\* query.values.iter().map(size).min().unwrap_or(1)
min_element_size(q) ==
    IF q.values = <<>> THEN 1
    ELSE LET S == {size(q.values[i].value_type) : i \in 1..Len(q.values)}
         IN CHOOSE x \in S : \A y \in S : x <= y

-----------------------------------------------------------------------------
(* Group matcher: try_match_group_at_address and its two variants *)

None == [some |-> FALSE, offsets |-> <<>>]

Some(offsets) == [some |-> TRUE, offsets |-> offsets]

\* variant: the inner loop advances byte by byte
RECURSIVE first_hit_bytewise(_, _, _)
first_hit_bytewise(buffer, target_value, off) ==
    LET value_size == size(target_value.value_type)
    IN IF off + value_size > Len(buffer) THEN -1
       ELSE IF matched(target_value, Slice(buffer, off, off + value_size)) THEN off
       ELSE first_hit_bytewise(buffer, target_value, off + 1)

\* the inner while loop of both matchers: the first offset at or after off, in
\* steps of the value's size, whose bytes match; -1 when the window is exhausted
RECURSIVE first_hit(_, _, _)
first_hit(buffer, target_value, off) ==
    LET value_size == size(target_value.value_type)
    IN IF off + value_size > Len(buffer) THEN -1
       ELSE IF matched(target_value, Slice(buffer, off, off + value_size)) THEN off
       ELSE first_hit(buffer, target_value, off + value_size)

\* variant: the cursor stays on the position it matched
RECURSIVE ordered_from_same_cursor(_, _, _, _)
ordered_from_same_cursor(buffer, values, current_offset, offsets) ==
    IF values = <<>> THEN Some(offsets)
    ELSE LET h == first_hit(buffer, values[1], current_offset)
         IN IF h < 0 THEN None
            ELSE ordered_from_same_cursor(buffer, Tail(values), h, Append(offsets, h))

\* the for loop of try_match_ordered from value index Len(offsets)
RECURSIVE ordered_from(_, _, _, _)
ordered_from(buffer, values, current_offset, offsets) ==
    IF values = <<>> THEN Some(offsets)
    ELSE LET h == first_hit(buffer, values[1], current_offset)
         IN IF h < 0 THEN None
            ELSE ordered_from(buffer, Tail(values),
                              h + size(values[1].value_type), Append(offsets, h))

try_match_ordered(buffer, start_addr, q) == ordered_from(buffer, q.values, 0, <<>>)

try_match_unordered(buffer, start_addr, q) ==
    LET hit(i) == first_hit(buffer, q.values[i], 0)
        found_count == Cardinality({i \in 1..Len(q.values) : hit(i) >= 0})
    IN IF found_count = Len(q.values)
       THEN Some([i \in 1..Len(q.values) |-> hit(i)])
       ELSE None

try_match_group_at_address(buffer, start_addr, q) ==
    IF q.mode = "Ordered" THEN try_match_ordered(buffer, start_addr, q)
    ELSE try_match_unordered(buffer, start_addr, q)

-----------------------------------------------------------------------------
(* Deep matcher (§4.7): every window position satisfying v_i is a branch of  *)
(* a depth-first search; every complete assignment is emitted.              *)

\* all in-order assignments, in depth-first order
RECURSIVE deep_ordered(_, _, _, _)
deep_ordered(buffer, values, pos, prefix) ==
    IF values = <<>> THEN <<prefix>>
    ELSE LET value_size == size(values[1].value_type)
         IN IF pos + value_size > Len(buffer) THEN <<>>
            ELSE (IF matched(values[1], Slice(buffer, pos, pos + value_size))
                  THEN deep_ordered(buffer, Tail(values), pos + value_size,
                                    Append(prefix, pos))
                  ELSE <<>>)
                 \o deep_ordered(buffer, values, pos + value_size, prefix)

\* every position of the window, on the value's own stride, that satisfies it
hits_of(buffer, target_value) ==
    LET value_size == size(target_value.value_type)
    IN {o \in 0..Len(buffer) :
            /\ o % value_size = 0
            /\ o + value_size <= Len(buffer)
            /\ matched(target_value, Slice(buffer, o, o + value_size))}

\* all assignments of the unordered query, in depth-first order
RECURSIVE deep_unordered(_, _, _)
deep_unordered(buffer, values, prefix) ==
    IF values = <<>> THEN <<prefix>>
    ELSE LET hs == SortedSeq(hits_of(buffer, values[1]))
             branch[k \in 0..Len(hs)] ==
                 IF k = Len(hs) THEN <<>>
                 ELSE deep_unordered(buffer, Tail(values), Append(prefix, hs[k + 1]))
                      \o branch[k + 1]
         IN branch[0]

\* `if let Some(offsets) = ...`: the offsets of a match, as a sequence of
\* zero or one assignment
option_seq(m) == IF m.some THEN <<m.offsets>> ELSE <<>>

\* the deep matcher on one window: every complete assignment
deep_assignments(buffer, q) ==
    IF q.mode = "Ordered" THEN deep_ordered(buffer, q.values, 0, <<>>)
    ELSE deep_unordered(buffer, q.values, <<>>)

\* the assignments one validated window yields: the first match of the
\* standard matcher, or every combination of the deep matcher
window_assignments(dp, buffer, start_addr, q) ==
    IF dp THEN deep_assignments(buffer, q)
    ELSE option_seq(try_match_group_at_address(buffer, start_addr, q))

\* one record per assignment: where the window starts, the anchor it was
\* validated around (-1: none), and the offsets of the values in the window
records_of(assignments, check_start, anchor_addr) ==
    [k \in 1..Len(assignments) |->
        [check_start |-> check_start, anchor |-> anchor_addr, offsets |-> assignments[k]]]

match_records(dp, buffer, check_start, anchor_addr, q) ==
    records_of(window_assignments(dp, buffer, check_start, q), check_start, anchor_addr)

-----------------------------------------------------------------------------
(* Scanners over one buffer *)

\* the first FixedInt value of the query is the anchor (index from 1; 0: none)
anchor_index(q) ==
    LET S == {i \in 1..Len(q.values) : q.values[i].kind = "FixedInt"}
    IN IF S = {} THEN 0 ELSE CHOOSE i \in S : \A j \in S : i <= j

\* the first address >= search_start that is a multiple of min_element_size
first_aligned(search_start, min_size) ==
    LET rem == search_start % min_size
    IN IF rem = 0 THEN search_start ELSE search_start + min_size - rem

\* check_addr lies in one of the successful page ranges
in_valid_page(check_addr, page_ranges, buffer_page_start) ==
    \E k \in 1..Len(page_ranges) :
        /\ check_addr >= buffer_page_start + page_ranges[k][1] * PAGE_SIZE
        /\ check_addr < buffer_page_start + page_ranges[k][2] * PAGE_SIZE

\* variant: only the first occurrence of the anchor is kept
anchor_candidates_first(buffer, buffer_addr, region_start, region_end, min_size, anchor_bytes) ==
    LET search_start == Max(buffer_addr, region_start)
        search_end == Min(buffer_addr + Len(buffer), region_end)
        first_addr == first_aligned(search_start, min_size)
        n == Len(anchor_bytes)
        hits == {o \in 0..Len(buffer) :
                    /\ o + n <= Len(buffer)
                    /\ Slice(buffer, o, o + n) = anchor_bytes
                    /\ (buffer_addr + o) % n = 0
                    /\ buffer_addr + o >= first_addr
                    /\ buffer_addr + o < search_end}
    IN IF hits = {} THEN <<>> ELSE <<CHOOSE o \in hits : \A o2 \in hits : o <= o2>>

\* memmem over the whole buffer (overlapping hits), then the alignment filter
anchor_candidates(buffer, buffer_addr, region_start, region_end, min_size, anchor_bytes) ==
    LET buffer_end == buffer_addr + Len(buffer)
        search_start == Max(buffer_addr, region_start)
        search_end == Min(buffer_end, region_end)
        first_addr == first_aligned(search_start, min_size)
        n == Len(anchor_bytes)
    IN SortedSeq({o \in 0..Len(buffer) :
           /\ o + n <= Len(buffer)
           /\ Slice(buffer, o, o + n) = anchor_bytes
           /\ (buffer_addr + o) % n = 0
           /\ buffer_addr + o >= first_addr
           /\ buffer_addr + o < search_end})

\* Ordered mode: start of the sequence, derived from the anchor's place in the query
ordered_start_addr(anchor_addr, anchor_idx, q) ==
    saturating_sub(anchor_addr, SumSizes(SubSeq(q.values, 1, anchor_idx - 1)))

\* variant: the window reaches one byte past the range
ordered_window_past_range(start_addr, buffer_end, region_end, q) ==
    LET min_buffer_size == Max(SumSizes(q.values), q.range) + 1
    IN <<start_addr, Min(Min(start_addr + min_buffer_size, buffer_end), region_end)>>

\* Ordered mode: the window [check_start, check_end) validated for a sequence start
ordered_window(start_addr, buffer_end, region_end, q) ==
    LET min_buffer_size == Max(SumSizes(q.values), q.range)
    IN <<start_addr, Min(Min(start_addr + min_buffer_size, buffer_end), region_end)>>

\* variant: the window starts where the buffer starts
unordered_window_from_buffer(anchor_addr, buffer_addr, buffer_end, region_end, q) ==
    <<buffer_addr, Min(Min(anchor_addr + q.range, buffer_end), region_end)>>

\* Unordered mode: the window [check_start, check_end) validated around an anchor
unordered_window(anchor_addr, buffer_addr, buffer_end, region_end, q) ==
    <<Max(saturating_sub(anchor_addr, q.range), buffer_addr),
      Min(Min(anchor_addr + q.range, buffer_end), region_end)>>

\* the body of the loop over the candidates, for the candidate at offset
candidate_matches(dp, offset, buffer, buffer_addr, region_start, region_end, q, page_status) ==
    LET buffer_end == buffer_addr + Len(buffer)
        anchor_addr == buffer_addr + offset
        ordered == (q.mode = "Ordered")
        start_addr == IF ordered
                      THEN ordered_start_addr(anchor_addr, anchor_index(q), q)
                      ELSE saturating_sub(anchor_addr, q.range)
        check_addr == IF ordered THEN start_addr ELSE anchor_addr
        page_ranges == get_success_page_ranges(page_status)
        buffer_page_start == PageAlign(buffer_addr)
        w == IF ordered
             THEN ordered_window(start_addr, buffer_end, region_end, q)
             ELSE unordered_window(anchor_addr, buffer_addr, buffer_end, region_end, q)
        check_start_offset == w[1] - buffer_addr
        range_size == w[2] - w[1]
    IN IF check_addr < region_start \/ check_addr >= region_end THEN <<>>
       ELSE IF ~in_valid_page(check_addr, page_ranges, buffer_page_start) THEN <<>>
       ELSE IF ordered /\ start_addr < buffer_addr THEN <<>>
       ELSE IF check_start_offset + range_size > Len(buffer) THEN <<>>
       ELSE match_records(dp,
                Slice(buffer, check_start_offset, check_start_offset + range_size),
                w[1], anchor_addr, q)

\* anchor-first scanner: the matches in emission order
anchor_first_matches(dp, buffer, buffer_addr, region_start, region_end, min_size, q, page_status) ==
    LET av == q.values[anchor_index(q)]
        anchor_bytes == SubSeq(av.value, 1, size(av.value_type))
        cands == anchor_candidates(buffer, buffer_addr, region_start, region_end,
                                   min_size, anchor_bytes)
        from[k \in 1..(Len(cands) + 1)] ==
            IF k > Len(cands) THEN <<>>
            ELSE candidate_matches(dp, cands[k], buffer, buffer_addr, region_start,
                                   region_end, q, page_status) \o from[k + 1]
    IN IF get_success_page_ranges(page_status) = <<>> THEN <<>> ELSE from[1]

\* fallback scanner: the window validated at one aligned address
fallback_at(dp, addr, buffer, buffer_addr, search_end, q) ==
    LET buffer_end == buffer_addr + Len(buffer)
        offset == addr - buffer_addr
        range_end_check == Min(Min(addr + q.range, buffer_end), search_end)
        range_size == range_end_check - addr
    IN IF offset < Len(buffer) /\ range_size >= q.range
          /\ offset + range_size <= Len(buffer)
       THEN match_records(dp, Slice(buffer, offset, offset + range_size), addr, -1, q)
       ELSE <<>>

\* fallback scanner: the addresses walked inside one successful page range
fallback_addrs(page_range, buffer_addr, buffer_end, search_end, first_addr, min_size) ==
    LET buffer_page_start == PageAlign(buffer_addr)
        page_range_start == buffer_page_start + page_range[1] * PAGE_SIZE
        page_range_end == buffer_page_start + page_range[2] * PAGE_SIZE
        range_start == Max(page_range_start, buffer_addr)
        range_end == Min(Min(page_range_end, search_end), buffer_end)
        addr0 == IF range_start <= first_addr THEN first_addr
                 ELSE first_aligned(range_start, min_size)
    IN IF range_start >= range_end THEN <<>>
       ELSE SortedSeq({a \in addr0..(range_end - 1) : (a - addr0) % min_size = 0})

\* search_in_buffer_group_fallback: the matches in emission order
fallback_matches(dp, buffer, buffer_addr, region_start, region_end, min_size, q, page_status) ==
    LET buffer_end == buffer_addr + Len(buffer)
        search_start == Max(buffer_addr, region_start)
        search_end == Min(buffer_end, region_end)
        first_addr == first_aligned(search_start, min_size)
        page_ranges == get_success_page_ranges(page_status)
        walk(r) == fallback_addrs(page_ranges[r], buffer_addr, buffer_end, search_end,
                                  first_addr, min_size)
        inrange[r \in 1..Len(page_ranges), k \in 1..(Len(buffer) + 1)] ==
            IF k > Len(walk(r)) THEN <<>>
            ELSE fallback_at(dp, walk(r)[k], buffer, buffer_addr, search_end, q)
                 \o inrange[r, k + 1]
        from[r \in 1..(Len(page_ranges) + 1)] ==
            IF r > Len(page_ranges) THEN <<>> ELSE inrange[r, 1] \o from[r + 1]
    IN from[1]

\* search_in_buffer_group (dp: its deep variant): anchor-first when the query
\* has a fixed value, the fallback scanner otherwise
buffer_matches(dp, buffer, buffer_addr, region_start, region_end, min_size, q, page_status) ==
    IF anchor_index(q) = 0
    THEN fallback_matches(dp, buffer, buffer_addr, region_start, region_end,
                          min_size, q, page_status)
    ELSE anchor_first_matches(dp, buffer, buffer_addr, region_start, region_end,
                              min_size, q, page_status)

\* the (address, type) pairs one match hands to results.insert, in value order
match_pairs(m, q) ==
    [i \in 1..Len(m.offsets) |->
        [addr |-> m.check_start + m.offsets[i], value_type |-> q.values[i].value_type]]

\* BPlusTreeSet::insert with ValuePair's ordering: the key is the address alone,
\* an element whose key is present is not inserted again
insert(set, pair) ==
    IF \E p \in set : p.addr = pair.addr THEN set ELSE set \cup {pair}

RECURSIVE insert_pairs(_, _)
insert_pairs(set, pairs) ==
    IF pairs = <<>> THEN set
    ELSE insert_pairs(insert(set, pairs[1]), Tail(pairs))

RECURSIVE insert_matches(_, _, _)
insert_matches(set, ms, q) ==
    IF ms = <<>> THEN set
    ELSE insert_matches(insert_pairs(set, match_pairs(ms[1], q)), Tail(ms), q)

\* search_in_buffer_group: results after the scan of one buffer
search_in_buffer_group(buffer, buffer_addr, region_start, region_end, min_size, q, page_status, res) ==
    insert_matches(res,
        buffer_matches(FALSE, buffer, buffer_addr, region_start, region_end,
                       min_size, q, page_status), q)

\* search_in_buffer_group_fallback: results after the scan of one buffer
search_in_buffer_group_fallback(buffer, buffer_addr, region_start, region_end, min_size, q, page_status, res) ==
    insert_matches(res,
        fallback_matches(FALSE, buffer, buffer_addr, region_start, region_end,
                         min_size, q, page_status), q)

\* search_in_buffer_group_deep: results after the deep scan of one buffer
search_in_buffer_group_deep(buffer, buffer_addr, region_start, region_end, min_size, q, page_status, res) ==
    insert_matches(res,
        buffer_matches(TRUE, buffer, buffer_addr, region_start, region_end,
                       min_size, q, page_status), q)

-----------------------------------------------------------------------------
(* Sliding chunk driver: search_region_group *)

\* what one reader call can return: Err, or Ok with a per-page success pattern;
\* the bytes of a failed page are unspecified: the buffer keeps what it held
\* ("stale") or receives the target bytes although the page is flagged ("mem")
ReadOutcomes(n) ==
    [kind : {"ok"}, bits : [1..n -> BOOLEAN], fill : {"stale", "mem"}]
    \cup [kind : {"err"}, bits : {[i \in 1..n |-> FALSE]}, fill : {"stale", "mem"}]

\* a chunk none of whose pages was read is never scanned, so what its bytes
\* hold is immaterial: those outcomes are taken with the buffer left as it was
Scanned(outcome) ==
    \/ outcome.fill = "stale"
    \/ /\ outcome.kind = "ok"
       /\ \E i \in 1..Len(outcome.bits) : outcome.bits[i]
       /\ \E i \in 1..Len(outcome.bits) : ~outcome.bits[i]

AllSuccess(n) == [kind |-> "ok", bits |-> [i \in 1..n |-> TRUE], fill |-> "stale"]

\* pages of PageStatusBitmap::new(chunk_len, cur)
chunk_pages(cur, chunk_len) == ((cur % PAGE_SIZE) + chunk_len + PAGE_SIZE - 1) \div PAGE_SIZE

\* read_memory_unified(cur, &mut buf[chunk..chunk+chunk_len], status): the
\* second half of the buffer after the call
read_memory_unified(m, cur, chunk_len, old, outcome) ==
    [i \in 1..chunk_len |->
        LET a == cur + i - 1
            page == (a \div PAGE_SIZE) - (cur \div PAGE_SIZE)
        IN IF outcome.bits[page + 1] \/ outcome.fill = "mem" THEN m[a] ELSE old[i]]

\* per byte of the chunk: did the reader mark its page successful
read_flags(cur, chunk_len, outcome) ==
    [i \in 1..chunk_len |->
        outcome.bits[(((cur + i - 1) \div PAGE_SIZE) - (cur \div PAGE_SIZE)) + 1]]

\* the combined page status of the overlap view: the pages of the overlap
\* prefix are marked successful, the chunk's pages are remapped by page offset
RECURSIVE mark_first(_, _)
mark_first(ps, n) == IF n = 0 THEN ps ELSE mark_success(mark_first(ps, n - 1), n - 1)

RECURSIVE map_status(_, _, _, _)
map_status(combined, page_status, page_offset, i) ==
    IF i >= num_pages(page_status) THEN combined
    ELSE map_status(
            IF is_page_success(page_status, i) /\ page_offset + i < num_pages(combined)
            THEN mark_success(combined, page_offset + i) ELSE combined,
            page_status, page_offset, i + 1)

combined_status(cur, chunk_len, search_range, page_status) ==
    LET overlap_start_addr == cur - search_range
        overlap_len == search_range + chunk_len
        overlap_start_page == overlap_start_addr \div PAGE_SIZE
        overlap_end == overlap_start_addr + search_range
        overlap_end_page == (overlap_end + PAGE_SIZE - 1) \div PAGE_SIZE
        num_overlap_pages == overlap_end_page - overlap_start_page
        page_offset == (PageAlign(cur) - PageAlign(overlap_start_addr)) \div PAGE_SIZE
    IN map_status(
           mark_first(PageStatusBitmap_new(overlap_len, overlap_start_addr), num_overlap_pages),
           page_status, page_offset, 0)

\* variant: a chunk after a valid chunk is scanned without the overlap
scan_pass_without_overlap(s, outcome) ==
    IF outcome.kind = "err" \/ \A i \in 1..Len(outcome.bits) : ~outcome.bits[i] THEN "none"
    ELSE IF s.is_first_chunk THEN "first"
    ELSE "single"

\* variant: a chunk after a failed chunk is still scanned through the overlap view
scan_pass_overlap_after_failure(s, outcome) ==
    IF outcome.kind = "err" \/ \A i \in 1..Len(outcome.bits) : ~outcome.bits[i] THEN "none"
    ELSE IF s.is_first_chunk THEN "first"
    ELSE "overlap"

\* which branch of the driver scans the chunk
scan_pass(s, outcome) ==
    IF outcome.kind = "err" \/ \A i \in 1..Len(outcome.bits) : ~outcome.bits[i] THEN "none"
    ELSE IF s.is_first_chunk THEN "first"
    ELSE IF s.prev_chunk_valid THEN "overlap"
    ELSE "single"

\* variant: the chunk is copied one byte into the first half
copy_within_shifted(buf, chunk, chunk_len) ==
    [i \in 1..Len(buf) |-> IF i > 1 /\ i <= chunk_len + 1 THEN buf[chunk + i - 1] ELSE buf[i]]

\* sliding_buffer.copy_within(per_chunk_size..per_chunk_size + chunk_len, 0)
copy_within(buf, chunk, chunk_len) ==
    [i \in 1..Len(buf) |-> IF i <= chunk_len THEN buf[chunk + i] ELSE buf[i]]

\* variant: the overlap view is given the address of the chunk
view_start_at_chunk(pass, cur, search_range) == cur

\* the address of the first byte of the scanned view: overlap_start_addr for
\* the overlap view, current for the chunk alone
view_start(pass, cur, search_range) ==
    IF pass = "overlap" THEN cur - search_range ELSE cur

\* the rest of the iteration once the scan of the chunk has produced the
\* matches ms: insert them, slide the buffer, advance current
after_scan(q, region_end, chunk, s, outcome, pass, lo, view_addr, buf, okb, ms) ==
    LET cur == s.current
        chunk_end == Min(cur + chunk, region_end)
        chunk_len == chunk_end - cur
        recs == {[pass |-> pass, chunk |-> cur, check_start |-> ms[k].check_start,
                  anchor |-> ms[k].anchor, offsets |-> ms[k].offsets,
                  oks |-> [i \in 1..Len(ms[k].offsets) |->
                              \A j \in 1..size(q.values[i].value_type) :
                                  okb[lo + (ms[k].check_start - view_addr)
                                         + ms[k].offsets[i] + j]]]
                 : k \in 1..Len(ms)}
        slid == IF chunk_end < region_end THEN copy_within(buf, chunk, chunk_len) ELSE buf
        slid_ok == IF chunk_end < region_end
                   THEN [i \in 1..(2 * chunk) |-> IF i <= chunk_len THEN okb[chunk + i] ELSE okb[i]]
                   ELSE okb
    IN [current |-> chunk_end,
        is_first_chunk |-> IF pass = "first" THEN FALSE ELSE s.is_first_chunk,
        prev_chunk_valid |-> (pass # "none"),
        sliding_buffer |-> slid,
        results |-> insert_matches(s.results, ms, q),
        ok |-> slid_ok,
        em |-> s.em \cup recs,
        rd |-> Append(s.rd, [addr |-> cur, len |-> chunk_len, kind |-> outcome.kind,
                             bits |-> outcome.bits, fill |-> outcome.fill, pass |-> pass])]

\* one iteration of `while current < end`: read, scan, slide, advance.
\* s holds the locals of search_region_group; ok is the history of the read
\* flags of the buffer's bytes, em and rd the histories of matches and reads.
chunk_step(dp, q, region_start, region_end, chunk, m, s, outcome) ==
    LET cur == s.current
        chunk_end == Min(cur + chunk, region_end)
        chunk_len == chunk_end - cur
        search_range == q.range
        page_status == [base |-> cur, bits |-> outcome.bits]
        data == read_memory_unified(m, cur, chunk_len,
                    Slice(s.sliding_buffer, chunk, chunk + chunk_len), outcome)
        flags == read_flags(cur, chunk_len, outcome)
        buf == [i \in 1..(2 * chunk) |->
                   IF i > chunk /\ i <= chunk + chunk_len THEN data[i - chunk]
                   ELSE s.sliding_buffer[i]]
        okb == [i \in 1..(2 * chunk) |->
                   IF i > chunk /\ i <= chunk + chunk_len THEN flags[i - chunk]
                   ELSE s.ok[i]]
        pass == scan_pass(s, outcome)
        overlap_start_offset == saturating_sub(chunk, search_range)
        lo == IF pass = "overlap" THEN overlap_start_offset ELSE chunk
        view == Slice(buf, lo, chunk + chunk_len)
        view_addr == view_start(pass, cur, search_range)
        status == IF pass = "overlap"
                  THEN combined_status(cur, chunk_len, search_range, page_status)
                  ELSE page_status
    IN after_scan(q, region_end, chunk, s, outcome, pass, lo, view_addr, buf, okb,
           IF pass = "none" THEN <<>>
           ELSE buffer_matches(dp, view, view_addr, region_start, chunk_end,
                               min_element_size(q), q, status))

\* variant: the first chunk starts at the region start
region_init_unaligned(region_start, chunk) ==
    [current |-> region_start,
     is_first_chunk |-> TRUE,
     prev_chunk_valid |-> FALSE,
     sliding_buffer |-> [i \in 1..(2 * chunk) |-> 0],
     results |-> {},
     ok |-> [i \in 1..(2 * chunk) |-> FALSE],
     em |-> {},
     rd |-> <<>>]

\* the locals of search_region_group before the loop
region_init(region_start, chunk) ==
    [current |-> PageAlign(region_start),
     is_first_chunk |-> TRUE,
     prev_chunk_valid |-> FALSE,
     sliding_buffer |-> [i \in 1..(2 * chunk) |-> 0],
     results |-> {},
     ok |-> [i \in 1..(2 * chunk) |-> FALSE],
     em |-> {},
     rd |-> <<>>]

\* search_region_group over a reader that serves every page, for chunk >=
\* q.range, as in every use of it below; with a smaller chunk the loop is the
\* action Chunk, whose step Underflow is line 70 computing current - search_range
\* below zero
RECURSIVE run_readable(_, _, _, _, _, _, _)
run_readable(dp, q, region_start, region_end, chunk, m, s) ==
    IF s.current >= region_end THEN s
    ELSE run_readable(dp, q, region_start, region_end, chunk, m,
            chunk_step(dp, q, region_start, region_end, chunk, m, s,
                AllSuccess(chunk_pages(s.current,
                    Min(s.current + chunk, region_end) - s.current))))

search_region_group(dp, q, region_start, region_end, chunk, m) ==
    run_readable(dp, q, region_start, region_end, chunk, m,
                 region_init(region_start, chunk)).results

-----------------------------------------------------------------------------
(* The region scan as a state machine *)

Locals ==
    [current |-> current, is_first_chunk |-> is_first_chunk,
     prev_chunk_valid |-> prev_chunk_valid, sliding_buffer |-> sliding_buffer,
     results |-> results, ok |-> buffer_ok, em |-> emitted, rd |-> reads]

\* SearchFilter::default
SearchFilter_new ==
    [enable_address_filter |-> FALSE, address_start |-> 0, address_end |-> 0,
     enable_type_filter |-> FALSE, type_ids |-> <<>>]

\* the manager as new() leaves its filter and progress buffer, no progress
\* task running, nothing written to host memory
NoHost ==
    /\ filter = SearchFilter_new
    /\ got = [kind |-> "none"]
    /\ progress_buffer = [some |-> FALSE, ptr |-> 0, len |-> 0]
    /\ channel = <<>>
    /\ updater = <<>>
    /\ progress_updater = 0
    /\ refine_current = <<>>
    /\ progress_monitor = <<>>
    /\ completed_regions = 0
    /\ total_found_count = 0
    /\ workers = <<>>
    /\ writes = <<>>

\* the matcher has not been called on its own
NoMatch ==
    /\ match_buffer = <<>>
    /\ match_result = [called |-> FALSE, value |-> None]

\* the state of one region worker before its loop: the read guard of
\* DRIVER_MANAGER is held
Begin(m, q, dp, region_start, region_end, chunk) ==
    LET s == region_init(region_start, chunk)
    IN /\ mem = m
       /\ query = q
       /\ deep = dp
       /\ start = region_start
       /\ end = region_end
       /\ per_chunk_size = chunk
       /\ current = s.current
       /\ is_first_chunk = s.is_first_chunk
       /\ prev_chunk_valid = s.prev_chunk_valid
       /\ sliding_buffer = s.sliding_buffer
       /\ results = s.results
       /\ buffer_ok = s.ok
       /\ emitted = s.em
       /\ reads = s.rd
       /\ pc = "loop"
       /\ regions = <<>>
       /\ all_results = <<>>
       /\ completed = <<>>
       /\ result_mgr = <<>>
       /\ callbacks = <<>>
       /\ ret = [kind |-> "none"]
       /\ call = [op |-> "none", callback |-> FALSE, n |-> 0, totals |-> <<>>]
       /\ lock_poisoned = FALSE
       /\ mpc = "none"
       /\ rwlock = [readers |-> 1, writer |-> "none"]
       /\ NoHost
       /\ NoMatch

\* the locals take the values of n
Becomes(n) ==
    /\ current' = n.current
    /\ is_first_chunk' = n.is_first_chunk
    /\ prev_chunk_valid' = n.prev_chunk_valid
    /\ sliding_buffer' = n.sliding_buffer
    /\ results' = n.results
    /\ buffer_ok' = n.ok
    /\ emitted' = n.em
    /\ reads' = n.rd

\* let overlap_start_addr = current - search_range as u64 of the overlap
\* branch, with current < search_range: the u64 subtraction underflows
overlap_underflows(q, s, outcome) ==
    scan_pass(s, outcome) = "overlap" /\ s.current < q.range

\* the locals when the subtraction underflows: the chunk has been read into
\* the second half of the buffer, nothing was scanned, current is where it was
chunk_read(region_end, chunk, m, s, outcome) ==
    LET cur == s.current
        chunk_len == Min(cur + chunk, region_end) - cur
        data == read_memory_unified(m, cur, chunk_len,
                    Slice(s.sliding_buffer, chunk, chunk + chunk_len), outcome)
        flags == read_flags(cur, chunk_len, outcome)
    IN [s EXCEPT
           !.sliding_buffer = [i \in 1..(2 * chunk) |->
               IF i > chunk /\ i <= chunk + chunk_len THEN data[i - chunk] ELSE @[i]],
           !.ok = [i \in 1..(2 * chunk) |->
               IF i > chunk /\ i <= chunk + chunk_len THEN flags[i - chunk] ELSE @[i]],
           !.rd = Append(@, [addr |-> cur, len |-> chunk_len, kind |-> outcome.kind,
                             bits |-> outcome.bits, fill |-> outcome.fill,
                             pass |-> "overlap"])]

\* what the build makes of the underflow.  With overflow checks (debug
\* profile) the subtraction panics and the thread unwinds, dropping the read
\* guard.  Without them (release profile) it wraps to 2^64 - (search_range -
\* current); overlap_end wraps back to current, num_overlap_pages =
\* overlap_end_page - overlap_start_page wraps to more than 2^63, and the
\* thread is in the loop of 83-85 over that many page indexes, an end this
\* model does not follow it to.
Underflow(outcome) ==
    /\ Becomes(chunk_read(end, per_chunk_size, mem, Locals, outcome))
    /\ \/ pc' = "panicked" /\ rwlock' = [rwlock EXCEPT !.readers = rwlock.readers - 1]
       \/ pc' = "wrapped" /\ rwlock' = rwlock

\* one loop iteration with the given reader outcome
Chunk(outcome) ==
    /\ pc = "loop"
    /\ current < end
    /\ IF overlap_underflows(query, Locals, outcome)
       THEN Underflow(outcome)
       ELSE /\ Becomes(chunk_step(deep, query, start, end, per_chunk_size, mem, Locals,
                               outcome))
            /\ UNCHANGED <<pc, rwlock>>
    /\ UNCHANGED <<mem, query, deep, start, end, per_chunk_size>>
    /\ UNCHANGED <<mvars, fvars, pvars, tvars, rvars>>

CurrentPages == chunk_pages(current, Min(current + per_chunk_size, end) - current)

\* the reader serves every page of the chunk
ReadAll ==
    \E outcome \in {AllSuccess(CurrentPages)} : Chunk(outcome)

\* the reader returns Ok and flags at least one page as failed
ReadPartial ==
    \E outcome \in ReadOutcomes(CurrentPages) :
        /\ outcome.kind = "ok"
        /\ \E i \in 1..CurrentPages : ~outcome.bits[i]
        /\ Scanned(outcome)
        /\ Chunk(outcome)

\* the reader returns Err for the chunk
ReadErr ==
    \E outcome \in ReadOutcomes(CurrentPages) :
        /\ outcome.kind = "err"
        /\ Scanned(outcome)
        /\ Chunk(outcome)

\* the loop condition fails: Ok(results); the read guard is dropped
Return ==
    /\ pc = "loop"
    /\ current >= end
    /\ pc' = "done"
    /\ rwlock' = [rwlock EXCEPT !.readers = rwlock.readers - 1]
    /\ UNCHANGED <<mem, query, deep, start, end, per_chunk_size, current, is_first_chunk,
                   prev_chunk_valid, sliding_buffer, results, buffer_ok, emitted, reads>>
    /\ UNCHANGED <<mvars, fvars, pvars, tvars, rvars>>

\* a reader that serves every page
NextReadable == ReadAll \/ Return

\* a reader with page faults and transport errors
NextFaulty == ReadAll \/ ReadPartial \/ ReadErr \/ Return

\* an update of the reader configuration calls DRIVER_MANAGER.write()
WriterWaits ==
    /\ rwlock.writer = "none"
    /\ rwlock' = [rwlock EXCEPT !.writer = "waiting"]
    /\ UNCHANGED <<mem, query, deep, per_chunk_size>>
    /\ UNCHANGED <<svars, mvars, fvars, pvars, tvars, rvars>>

\* RwLock::write returns once no read guard is held
WriterAcquires ==
    /\ rwlock.writer = "waiting"
    /\ rwlock.readers = 0
    /\ rwlock' = [rwlock EXCEPT !.writer = "holding"]
    /\ UNCHANGED <<mem, query, deep, per_chunk_size>>
    /\ UNCHANGED <<svars, mvars, fvars, pvars, tvars, rvars>>

\* the write guard is dropped
WriterReleases ==
    /\ rwlock.writer = "holding"
    /\ rwlock' = [rwlock EXCEPT !.writer = "done"]
    /\ UNCHANGED <<mem, query, deep, per_chunk_size>>
    /\ UNCHANGED <<svars, mvars, fvars, pvars, tvars, rvars>>

\* a region scan beside one update of the reader configuration
NextLock == ReadAll \/ Return \/ WriterWaits \/ WriterAcquires \/ WriterReleases

-----------------------------------------------------------------------------
(* Inputs *)

\* target memories: zero background with at most MaxMarks non-zero bytes
Memories ==
    {m \in [0..(MemSize - 1) -> ByteVals] :
        Cardinality({a \in 0..(MemSize - 1) : m[a] # 0}) <= MaxMarks}

B(b) == FixedInt(<<b>>, "Byte")

W(b0, b1) == FixedInt(<<b0, b1>>, "Word")

Query(values, mode, range) == [values |-> values, mode |-> mode, range |-> range]

\* group queries whose values are all fixed and of one size, range >= sum of sizes
FixedQueries ==
    {Query(<<B(1), B(2)>>, md, r) : md \in {"Ordered", "Unordered"}, r \in 2..3}
    \cup {Query(<<W(1, 0), W(2, 0)>>, md, 4) : md \in {"Ordered", "Unordered"}}

\* group queries without a fixed value (fallback scanner)
RangeQueries ==
    {Query(<<RangeVal(1, 1, "Byte"), RangeVal(2, 2, "Byte")>>, md, r) :
        md \in {"Ordered", "Unordered"}, r \in 2..3}

ScanQueries == FixedQueries \cup RangeQueries

\* regions [start, end) of the modelled memory and the chunk sizes
Regions == {<<0, MemSize>>, <<1, MemSize>>, <<2, MemSize - 1>>}

ChunkSizes == {3, 4, MemSize}

\* Ordered queries with range >= the sum of the value sizes: values of one
\* size and of two, the fixed value first or second, and no fixed value
\* (fallback scanner)
OrderedQueries ==
    {Query(<<B(1), B(2)>>, "Ordered", r) : r \in 2..3}
    \cup {Query(<<W(1, 0), W(2, 0)>>, "Ordered", 4)}
    \cup {Query(<<B(1), W(2, 0)>>, "Ordered", r) : r \in 3..4}
    \cup {Query(<<W(1, 0), B(2)>>, "Ordered", 3)}
    \cup {Query(<<RangeVal(1, 1, "Byte"), B(2)>>, "Ordered", r) : r \in 2..3}
    \cup {Query(<<RangeVal(1, 1, "Byte"), RangeVal(2, 2, "Byte")>>, "Ordered", r) : r \in 2..3}
    \cup {Query(<<RangeVal(1, 1, "Word"), RangeVal(2, 2, "Word")>>, "Ordered", r) : r \in 4..5}

\* Ordered search of one region over a reader that serves every page
InitOrdered ==
    \E m \in Memories, q \in OrderedQueries, rg \in Regions, c \in ChunkSizes :
        /\ c >= q.range
        /\ Begin(m, q, FALSE, rg[1], rg[2], c)

SpecOrdered == InitOrdered /\ [][NextReadable]_vars

\* standard search of one region over a reader that serves every page
InitReadable ==
    \E m \in Memories, q \in ScanQueries, rg \in Regions, c \in ChunkSizes :
        /\ c >= q.range
        /\ Begin(m, q, FALSE, rg[1], rg[2], c)

SpecReadable == InitReadable /\ [][NextReadable]_vars

\* memories holding at most two non-zero bytes
PairMemories ==
    {m \in Memories : Cardinality({a \in DOMAIN m : m[a] # 0}) <= 2}

\* standard search of one region over a reader that may fail pages or the
\* whole read
InitFaulty ==
    \E m \in PairMemories, q \in ScanQueries, c \in ChunkSizes,
       rg \in {<<0, MemSize>>, <<1, MemSize>>} :
        /\ c >= q.range
        /\ Begin(m, q, FALSE, rg[1], rg[2], c)

SpecFaulty == InitFaulty /\ [][NextFaulty]_vars

\* memories with room for one more non-zero byte
DenseMemories ==
    {m \in [0..(MemSize - 1) -> ByteVals] :
        Cardinality({a \in 0..(MemSize - 1) : m[a] # 0}) <= MaxMarks + 1}

\* three values, the first and the last alike
TripleQueries == {Query(<<B(1), B(2), B(1)>>, "Ordered", r) : r \in 3..4}

\* deep search of one region over a reader that serves every page
InitDeep ==
    \/ \E m \in Memories, q \in FixedQueries, rg \in Regions, c \in ChunkSizes :
           /\ c >= q.range
           /\ Begin(m, q, TRUE, rg[1], rg[2], c)
    \/ \E m \in DenseMemories, q \in TripleQueries, c \in {PAGE_SIZE, MemSize} :
           Begin(m, q, TRUE, 0, MemSize, c)

SpecDeep == InitDeep /\ [][NextReadable]_vars

\* group queries of mixed value sizes, with a Range value, with no fixed value
\* (fallback scanner), and with a range below the sum of the value sizes
WideQueries ==
    {Query(<<B(1), W(2, 0)>>, md, r) : md \in {"Ordered", "Unordered"}, r \in 3..4}
    \cup {Query(<<W(1, 0), W(2, 0)>>, "Unordered", 5)}
    \cup {Query(<<RangeVal(1, 2, "Byte"), B(2)>>, md, 2) : md \in {"Ordered", "Unordered"}}
    \cup {Query(<<RangeVal(1, 1, "Byte"), RangeVal(2, 2, "Byte")>>, md, 2) :
             md \in {"Ordered", "Unordered"}}
    \cup {Query(<<B(1), B(2)>>, md, r) : md \in {"Ordered", "Unordered"}, r \in 1..2}

\* standard search with the wider queries over a reader that serves every page
InitWide ==
    \E m \in Memories, q \in WideQueries, rg \in Regions, c \in ChunkSizes :
        /\ c >= q.range
        /\ Begin(m, q, FALSE, rg[1], rg[2], c)

SpecWide == InitWide /\ [][NextReadable]_vars

\* standard search of one region in several chunks, a writer of the reader
\* configuration arriving at any time
InitLock ==
    \E m \in PairMemories, q \in FixedQueries, c \in {3, 4} :
        /\ c >= q.range
        /\ Begin(m, q, FALSE, 0, MemSize, c)

SpecLock == InitLock /\ [][NextLock]_vars

\* target memories holding nothing, or the values 1, 2 across the page boundary
ChunkMemories ==
    {m \in PairMemories :
        \A b \in 0..(MemSize - 1) : m[b] # 0 => ((b = 3 /\ m[b] = 1) \/ (b = 4 /\ m[b] = 2))}

\* chunk sizes from one byte on, regions that start and end inside a page
SmallChunkSizes == {1, 2, 3, 5, MemSize}

ChunkRegions == Regions \cup {<<5, 6>>}

ChunkQueries ==
    {Query(<<B(1), B(2)>>, "Ordered", 1),
     Query(<<B(1), B(2)>>, "Unordered", 2),
     Query(<<B(1), W(2, 0)>>, "Ordered", 3)}

\* standard search with any chunk size >= 1, below the range of the query or
\* not, over a reader that may fail pages or the whole read; the loop is not
\* left half-way: the thread that runs it keeps running
InitChunks ==
    \E m \in ChunkMemories, q \in ChunkQueries, c \in SmallChunkSizes, rg \in ChunkRegions :
        Begin(m, q, FALSE, rg[1], rg[2], c)

\* what every iteration does to the loop variable: current = chunk_end, with
\* chunk_end = min(current + per_chunk_size, end) > current
Advance ==
    /\ pc = "loop"
    /\ current < end
    /\ current' \in (current + 1)..end

\* a worker thread keeps running: while the loop condition holds an iteration
\* is executed, and once it fails the function returns
SpecChunks == InitChunks /\ [][NextFaulty]_vars /\ WF_current(Advance) /\ WF_vars(Return)

-----------------------------------------------------------------------------
(* The search manager: result store, search_memory, refine_search *)

\* largest number of consecutive refine_search calls in one behaviour
MaxRefines == 2

ValuePair(addr, t) == [addr |-> addr, value_type |-> t]

\* BPlusTreeSet::into_iter: the pairs in ascending address order
RECURSIVE into_iter(_)
into_iter(set) ==
    IF set = {} THEN <<>>
    ELSE LET p == CHOOSE x \in set : \A y \in set : x.addr <= y.addr
         IN <<p>> \o into_iter(set \ {p})

\* SearchResultManager::add_results_batch(items): the store is handed the items.
\* The store is kept as the sequence of the items it was handed since it was
\* last cleared, in the order of the calls (the Vec of manager.rs 293-298).  A
\* batch is the content of one BPlusTreeSet: ascending addresses, one item per
\* address.  How the store orders and keys the items of several batches is
\* decided outside these sources and is not settled here.
add_results_batch(store, items) == store \o items

\* single_search::search_region_single over a reader that serves every page:
\* every size-aligned address of the region whose bytes satisfy the value
search_region_single(v, region_start, region_end, chunk, m) ==
    {ValuePair(a, v.value_type) :
        a \in {b \in region_start..(region_end - 1) :
                 /\ b % size(v.value_type) = 0
                 /\ b + size(v.value_type) <= region_end
                 /\ matched(v, [i \in 1..size(v.value_type) |-> m[b + i - 1]])}}

\* DRIVER_MANAGER.read().map_err(..)?
read_lock(poisoned) == IF poisoned THEN "err" ELSE "ok"

\* the closure search_memory maps over the regions: dispatch on the number of
\* values, and an Err of the region scan replaced by an empty set.  kind keeps
\* which of the two the scan returned.
region_worker(q, dp, region_start, region_end, chunk, m, poisoned) ==
    IF read_lock(poisoned) = "err" THEN [kind |-> "err", set |-> {}]
    ELSE IF Len(q.values) > 1
    THEN [kind |-> "ok", set |-> search_region_group(dp, q, region_start, region_end, chunk, m)]
    ELSE [kind |-> "ok",
          set |-> search_region_single(q.values[1], region_start, region_end, chunk, m)]

\* variant: the results are gathered in the order the workers finish
collect_in_completion_order(all, order) == [k \in 1..Len(all) |-> all[order[k]]]

\* par_iter().enumerate().map(..).collect(): the results in region-list order,
\* whatever the order the workers finish in
collect(all, order) == all

\* for region_results in all_results: non-empty sets are added to the store
RECURSIVE merge_results(_, _)
merge_results(store, all) ==
    IF all = <<>> THEN store
    ELSE merge_results(
            IF all[1].set = {} THEN store
            ELSE add_results_batch(store, into_iter(all[1].set)),
            Tail(all))

\* the bytes a refine pass reads for each current result: its address and the
\* size(value_type) bytes there; a result the read fails for is left out
RECURSIVE read_current(_, _)
read_current(current_results, m) ==
    IF current_results = <<>> THEN <<>>
    ELSE LET p == current_results[1]
             n == size(p.value_type)
         IN (IF p.addr + n <= MemSize
             THEN <<[addr |-> p.addr, value_type |-> p.value_type,
                     bytes |-> [i \in 1..n |-> m[p.addr + i - 1]]]>>
             ELSE <<>>)
            \o read_current(Tail(current_results), m)

\* refine of a single value: the current results whose bytes satisfy it
refine_results_single(current_results, v, m) ==
    LET av == read_current(current_results, m)
    IN {ValuePair(av[k].addr, av[k].value_type) :
           k \in {j \in 1..Len(av) : matched(v, av[j].bytes)}}

\* the indexes taken for the values of the query from position i on: for each
\* value in turn the first result not beyond max_addr, not yet taken, whose
\* bytes satisfy it; <<>> when a value finds none
RECURSIVE refine_pick(_, _, _, _, _)
refine_pick(av, i, max_addr, values, chosen) ==
    IF Len(chosen) = Len(values) THEN chosen
    ELSE LET cands == {j \in i..Len(av) :
                          /\ av[j].addr <= max_addr
                          /\ \A k \in 1..Len(chosen) : chosen[k] # j
                          /\ matched(values[Len(chosen) + 1], av[j].bytes)}
         IN IF cands = {} THEN <<>>
            ELSE refine_pick(av, i, max_addr, values,
                     Append(chosen, CHOOSE j \in cands : \A k \in cands : j <= k))

\* variant: the result the pattern starts from is not itself a candidate
refine_accepts_after_start(av, i, q) ==
    LET picked == refine_pick(av, i + 1, av[i].addr + q.range, q.values, <<>>)
    IN IF Len(picked) # Len(q.values) THEN <<>>
       ELSE IF q.mode = "Ordered"
               /\ \E k \in 2..Len(picked) : av[picked[k]].addr <= av[picked[k - 1]].addr
       THEN <<>>
       ELSE [k \in 1..Len(picked) |-> ValuePair(av[picked[k]].addr, q.values[k].value_type)]

\* the pairs the pattern starting at position i adds: all values picked, and in
\* Ordered mode their addresses increasing
refine_accepts(av, i, q) ==
    LET picked == refine_pick(av, i, av[i].addr + q.range, q.values, <<>>)
    IN IF Len(picked) # Len(q.values) THEN <<>>
       ELSE IF q.mode = "Ordered"
               /\ \E k \in 2..Len(picked) : av[picked[k]].addr <= av[picked[k - 1]].addr
       THEN <<>>
       ELSE [k \in 1..Len(picked) |-> ValuePair(av[picked[k]].addr, q.values[k].value_type)]

RECURSIVE refine_from(_, _, _, _)
refine_from(av, i, q, refined) ==
    IF i > Len(av) THEN refined
    ELSE refine_from(av, i + 1, q, insert_pairs(refined, refine_accepts(av, i, q)))

\* refine of a group: the current results that form the pattern with their
\* neighbours inside range bytes
refine_results_group(current_results, q, m) ==
    refine_from(read_current(current_results, m), 1, q, {})

\* single_search::refine_single_search
refine_single_search(current_results, v, m) ==
    refine_results_single(current_results, v, m)

\* group_search::refine_search_group_with_dfs
refine_search_group_with_dfs(current_results, q, m) ==
    refine_results_group(current_results, q, m)

\* if query.values.len() == 1 { refine_single_search } else { ..with_dfs }
refined_results(current_results, q, m) ==
    IF Len(q.values) = 1 THEN refine_single_search(current_results, q.values[1], m)
    ELSE refine_search_group_with_dfs(current_results, q, m)

\* the region indexes whose worker has not finished
Pending == {i \in 1..Len(regions) : all_results[i].kind = "pending"}

\* the call ends: the store holds the given items, the callback fires when one
\* was supplied, Ok(final_count) is returned
Completes(store, total_regions, callback, n) ==
    /\ result_mgr' = store
    /\ callbacks' = IF callback
                    THEN Append(callbacks, [call |-> n, total_found |-> Len(store),
                                            total_regions |-> total_regions])
                    ELSE callbacks
    /\ ret' = [kind |-> "ok", count |-> Len(store)]
    /\ mpc' = "returned"

ManagerQueries ==
    {Query(<<>>, "Ordered", 0),
     Query(<<B(1)>>, "Ordered", 0),
     Query(<<B(1), B(2)>>, "Ordered", 2),
     Query(<<B(1), B(2)>>, "Ordered", 1),
     Query(<<B(1), W(1, 0)>>, "Unordered", 3)}

\* region lists: empty, one region, two regions in and out of address order,
\* disjoint and overlapping
RegionLists ==
    {<<>>,
     <<<<0, MemSize>>>>,
     <<<<4, MemSize>>>>,
     <<<<0, 4>>, <<4, MemSize>>>>,
     <<<<4, MemSize>>, <<0, 4>>>>,
     <<<<0, MemSize>>, <<4, MemSize>>>>,
     <<<<4, MemSize>>, <<0, MemSize>>>>}

\* a sender of channel i is dropped; None holds no sender
drop_tx(ch, i) == IF i = 0 THEN ch ELSE [ch EXCEPT ![i].senders = @ - 1]

\* largest number of search_memory calls of one behaviour
MaxSearches == 2

\* search_memory returns at result_mgr.clear()? with the store as it was, or
\* at result_mgr.set_mode(..)? with the store cleared: no updater is spawned,
\* no worker runs, no callback is made
SearchRefused ==
    /\ result_mgr' \in {result_mgr, <<>>}
    /\ ret' = [kind |-> "err"]
    /\ mpc' = "returned"
    /\ workers' = <<>>
    /\ progress_updater' = 0
    /\ UNCHANGED <<channel, updater>>

\* search_memory up to the fan-out: the store is cleared, the progress updater
\* is spawned when a progress buffer is set, and the regions are handed to the
\* workers
SearchStarts ==
    /\ result_mgr' = <<>>
    /\ ret' = [kind |-> "none"]
    /\ mpc' = "fanout"
    /\ channel' = IF progress_buffer.some
                   THEN Append(channel, [queue |-> <<>>, senders |-> 1])
                   ELSE channel
    /\ updater' = IF progress_buffer.some
                   THEN Append(updater, [ptr |-> progress_buffer.ptr,
                                         len |-> progress_buffer.len, beats |-> 0])
                   ELSE updater
    /\ progress_updater' = IF progress_buffer.some THEN Len(channel) + 1 ELSE 0
    /\ workers' = [i \in 1..Len(regions') |->
                      [pc |-> "scan", completed |-> 0, total_found |-> 0]]

\* search_memory: the arguments of the call, and its start or its early
\* return.  At most `most` calls are followed per behaviour; a call that
\* follows a search_memory repeats its arguments.
SearchMemoryOf(queries, lists, most) ==
    \E q \in queries, regs \in lists, dp \in BOOLEAN, cb \in BOOLEAN :
        /\ mpc \in {"idle", "returned"}
        /\ call.op \in {"none", "search_memory"}
        /\ call.n < most
        /\ call.op = "search_memory" =>
               (q = query /\ regs = regions /\ dp = deep /\ cb = call.callback)
        /\ dp => Len(q.values) > 1
        /\ query' = q
        /\ deep' = dp
        /\ regions' = regs
        /\ all_results' = [i \in 1..Len(regs) |-> [kind |-> "pending", set |-> {}]]
        /\ completed' = <<>>
        /\ call' = [op |-> "search_memory", callback |-> cb, n |-> call.n + 1,
                    totals |-> <<>>]
        /\ completed_regions' = 0
        /\ total_found_count' = 0
        /\ SearchStarts \/ SearchRefused
        /\ UNCHANGED <<mem, per_chunk_size, lock_poisoned, callbacks, rwlock,
                       progress_buffer, writes>>
        /\ UNCHANGED <<svars, fvars, tvars, rvars>>

SearchMemory == SearchMemoryOf(ManagerQueries, RegionLists, 1)

\* search_memory, and the same call once more on what it left
SearchMemoryAgain == SearchMemoryOf(ManagerQueries, RegionLists, MaxSearches)

\* one region worker runs its scan; without a progress updater it is done
RegionWorker ==
    \E idx \in Pending :
        /\ mpc = "fanout"
        /\ Len(query.values) >= 1
        /\ all_results' = [all_results EXCEPT ![idx] =
               region_worker(query, deep, regions[idx][1], regions[idx][2],
                             per_chunk_size, mem, lock_poisoned)]
        /\ completed' = Append(completed, idx)
        /\ workers' = [workers EXCEPT ![idx].pc =
               IF progress_updater # 0 THEN "fetch_completed" ELSE "done"]
        /\ UNCHANGED <<mem, query, deep, per_chunk_size, regions, result_mgr, callbacks,
                       ret, call, lock_poisoned, mpc, rwlock, progress_buffer, channel,
                       updater, progress_updater, completed_regions, total_found_count,
                       writes>>
        /\ UNCHANGED <<svars, fvars, tvars, rvars>>

\* a worker evaluates &query.values[0] of a query without values: the index is
\* out of bounds, the panic unwinds through search_memory and drops the sender
WorkerPanics ==
    /\ mpc = "fanout"
    /\ Pending # {}
    /\ Len(query.values) = 0
    /\ ret' = [kind |-> "panic"]
    /\ mpc' = "panicked"
    /\ channel' = drop_tx(channel, progress_updater)
    /\ progress_updater' = 0
    /\ UNCHANGED <<mem, query, deep, per_chunk_size, regions, all_results, completed,
                   result_mgr, callbacks, call, lock_poisoned, rwlock, progress_buffer,
                   updater, completed_regions, total_found_count, workers, writes>>
    /\ UNCHANGED <<svars, fvars, tvars, rvars>>

\* search_memory returns at result_mgr.add_results_batch(..)? for the k-th
\* region: the store holds what the regions before it gave, no callback is made
MergeFails(k) ==
    /\ collect(all_results, completed)[k].set # {}
    /\ result_mgr' = merge_results(result_mgr,
                                   SubSeq(collect(all_results, completed), 1, k - 1))
    /\ ret' = [kind |-> "err"]
    /\ mpc' = "returned"
    /\ UNCHANGED callbacks

\* search_memory after the fan-out: merge in region-list order, callback, Ok,
\* or the Err of the store; the sender of the progress channel is dropped with
\* the call's locals
Collect ==
    /\ mpc = "fanout"
    /\ Pending = {}
    /\ \A i \in 1..Len(workers) : workers[i].pc = "done"
    /\ \/ Completes(merge_results(result_mgr, collect(all_results, completed)),
                    Len(regions), call.callback, call.n)
       \/ \E k \in 1..Len(regions) : MergeFails(k)
    /\ channel' = drop_tx(channel, progress_updater)
    /\ progress_updater' = 0
    /\ UNCHANGED <<mem, query, deep, per_chunk_size, regions, all_results, completed,
                   call, lock_poisoned, rwlock, progress_buffer, updater,
                   completed_regions, total_found_count, workers, writes>>
    /\ UNCHANGED <<svars, fvars, tvars, rvars>>

\* a writer of the reader configuration panics while it holds the lock
WriterPanics ==
    /\ mpc \in {"idle", "fanout"}
    /\ ~lock_poisoned
    /\ lock_poisoned' = TRUE
    /\ UNCHANGED <<mem, query, deep, per_chunk_size, regions, all_results, completed,
                   result_mgr, callbacks, ret, call, mpc, rwlock>>
    /\ UNCHANGED <<svars, fvars, pvars, tvars, rvars>>

RefineQueries ==
    {Query(<<B(1)>>, "Ordered", 0),
     Query(<<W(1, 0)>>, "Ordered", 0),
     Query(<<B(1), B(2)>>, "Ordered", 2),
     Query(<<B(1), B(2)>>, "Unordered", 3),
     Query(<<B(1), W(1, 0)>>, "Unordered", 3)}

\* refine_search returns at result_mgr.get_all_exact_results()?: the store is
\* as it was, no task is spawned, no callback is made
RefineUnread ==
    /\ ret' = [kind |-> "err"]
    /\ mpc' = "returned"
    /\ UNCHANGED <<result_mgr, callbacks>>

\* refine_search found nothing to refine: Ok(0) at once
RefineNothing ==
    /\ result_mgr = <<>>
    /\ ret' = [kind |-> "ok", count |-> 0]
    /\ mpc' = "returned"
    /\ UNCHANGED <<result_mgr, callbacks>>

\* refine_search re-evaluates the current results and stores what is left
RefineSome(q, callback) ==
    /\ result_mgr # <<>>
    /\ Completes(add_results_batch(<<>>, into_iter(refined_results(result_mgr, q, mem))),
                 1, callback, call.n + 1)

\* refine_search: result_mgr.clear()? returns Err and the store is as it was
\* (534), or a later callee returns Err after the store was cleared (the ? of
\* 535, 544, 551 and 569): the error is returned, no callback is made
RefineFails ==
    /\ result_mgr # <<>>
    /\ result_mgr' \in {result_mgr, <<>>}
    /\ ret' = [kind |-> "err"]
    /\ mpc' = "returned"
    /\ UNCHANGED callbacks

\* the guard and the bookkeeping of a refine_search call; a call that follows
\* a refine repeats its query and callback
RefineCall(q, cb) ==
    /\ mpc \in {"idle", "returned"}
    /\ call.n < MaxRefines
    /\ call.op = "refine_search" => (q = query /\ cb = call.callback)
    /\ query' = q
    /\ call' = [op |-> "refine_search", callback |-> cb, n |-> call.n + 1,
                totals |-> Append(call.totals, Len(result_mgr))]

\* refine_search: the whole call, when it returns before it looks at the
\* progress buffer or the manager has none
RefineSearch ==
    \E q \in RefineQueries, cb \in BOOLEAN :
        /\ RefineCall(q, cb)
        /\ \/ RefineUnread
           \/ RefineNothing
           \/ ~progress_buffer.some /\ (RefineSome(q, cb) \/ RefineFails)
        /\ UNCHANGED <<mem, deep, per_chunk_size, regions, all_results, completed,
                       lock_poisoned, rwlock>>
        /\ UNCHANGED <<svars, fvars, pvars, tvars, rvars>>

\* 512 * 1024 bytes: 128 pages
DEFAULT_CHUNK_SIZE == 128 * PAGE_SIZE

ManagerChunkSizes == {4, MemSize}

\* the chunk_size argument of init
InitChunkSizes == {0} \cup ManagerChunkSizes

\* init, on a new manager or on one in use: a new empty store replaces the
\* store, chunk_size is set, Ok(())
init ==
    \E chunk_size \in InitChunkSizes :
        /\ mpc \in {"new", "idle", "returned"}
        /\ result_mgr' = <<>>
        /\ per_chunk_size' = IF chunk_size = 0 THEN DEFAULT_CHUNK_SIZE ELSE chunk_size
        /\ ret' = [kind |-> "unit"]
        /\ mpc' = "idle"
        /\ UNCHANGED <<mem, query, deep, regions, all_results, completed, callbacks,
                       call, lock_poisoned, rwlock>>
        /\ UNCHANGED <<svars, fvars, pvars, tvars, rvars>>

\* search_memory, refine_search, get_results, get_total_count, clear_results,
\* remove_result, remove_results_batch or get_current_mode on a manager without
\* a store: Err("SearchEngineManager not initialized"), no callback
NotInitialized ==
    /\ mpc = "new"
    /\ ret' = [kind |-> "err"]
    /\ UNCHANGED <<mem, query, deep, per_chunk_size, regions, all_results, completed,
                   result_mgr, callbacks, call, lock_poisoned, mpc, rwlock>>
    /\ UNCHANGED <<svars, fvars, pvars, tvars, rvars>>

NextManager ==
    \/ init \/ NotInitialized
    \/ SearchMemory \/ RegionWorker \/ WorkerPanics \/ Collect \/ WriterPanics

\* the locals of a region scan hold nothing: the workers are taken as a whole
NoScan ==
    /\ start = 0
    /\ end = 0
    /\ current = 0
    /\ is_first_chunk = TRUE
    /\ prev_chunk_valid = FALSE
    /\ sliding_buffer = <<>>
    /\ results = {}
    /\ pc = "none"
    /\ buffer_ok = <<>>
    /\ emitted = {}
    /\ reads = <<>>

\* the manager as new() leaves it: no store, the default chunk size, no call
\* made
InitManager ==
    \E m \in PairMemories :
        /\ mem = m
        /\ per_chunk_size = DEFAULT_CHUNK_SIZE
        /\ query = Query(<<>>, "Ordered", 0)
        /\ deep = FALSE
        /\ NoScan
        /\ regions = <<>>
        /\ all_results = <<>>
        /\ completed = <<>>
        /\ result_mgr = <<>>
        /\ callbacks = <<>>
        /\ ret = [kind |-> "none"]
        /\ call = [op |-> "none", callback |-> FALSE, n |-> 0, totals |-> <<>>]
        /\ lock_poisoned = FALSE
        /\ mpc = "new"
        /\ rwlock = [readers |-> 0, writer |-> "none"]
        /\ NoHost
        /\ NoMatch

SpecManager == InitManager /\ [][NextManager]_vars

\* target memories of the repeated search: up to two non-zero bytes, in the
\* two bytes before and the two bytes after the page boundary
AgainMemories ==
    {m \in PairMemories :
        \A a \in 0..(MemSize - 1) : m[a] # 0 => (a >= PAGE_SIZE - 2 /\ a < PAGE_SIZE + 2)}

NextSearchAgain ==
    \/ init \/ NotInitialized
    \/ SearchMemoryAgain \/ RegionWorker \/ WorkerPanics \/ Collect \/ WriterPanics

InitSearchAgain == InitManager /\ mem \in AgainMemories

SpecSearchAgain == InitSearchAgain /\ [][NextSearchAgain]_vars

\* the addresses the current results of a refine lie at
StoreAddrs == 0..3

\* result stores a search of one region may have left: one batch, typed
\* addresses in ascending order, one item per address
Stores ==
    {into_iter({ValuePair(a, t[a]) : a \in {b \in StoreAddrs : t[b] # "no"}}) :
        t \in [StoreAddrs -> {"no", "Byte", "Word"}]}

\* target memory as it is now around the current results
RefineMemories == {m \in Memories : \A a \in 5..(MemSize - 1) : m[a] = 0}

\* the manager holding the results of an earlier search, target memory having
\* changed since
InitRefine ==
    \E m \in RefineMemories, st \in Stores :
        /\ mem = m
        /\ per_chunk_size = 4
        /\ query = Query(<<>>, "Ordered", 0)
        /\ deep = FALSE
        /\ NoScan
        /\ regions = <<>>
        /\ all_results = <<>>
        /\ completed = <<>>
        /\ result_mgr = st
        /\ callbacks = <<>>
        /\ ret = [kind |-> "none"]
        /\ call = [op |-> "none", callback |-> FALSE, n |-> 0, totals |-> <<>>]
        /\ lock_poisoned = FALSE
        /\ mpc = "idle"
        /\ rwlock = [readers |-> 0, writer |-> "none"]
        /\ NoHost
        /\ NoMatch

-----------------------------------------------------------------------------
(* The filter of the manager and the enumeration of the results *)

\* ValueType::from_id: the stable ids of the value types, None for any other
from_id(id) ==
    CASE id = 0 -> Some("Byte")
      [] id = 1 -> Some("Word")
      [] id = 2 -> Some("Dword")
      [] id = 3 -> Some("Qword")
      [] id = 4 -> Some("Float")
      [] id = 5 -> Some("Double")
      [] OTHER -> None

\* type_ids.iter().filter_map(|&id| ValueType::from_id(id)).collect()
RECURSIVE filter_map_from_id(_)
filter_map_from_id(type_ids) ==
    IF type_ids = <<>> THEN <<>>
    ELSE option_seq(from_id(type_ids[1])) \o filter_map_from_id(Tail(type_ids))

\* SearchResultManager::get_results(start, size): up to size items of the
\* store from index start on
get_results(store, first, count) ==
    SubSeq(store, first + 1, Min(first + count, Len(store)))

\* SearchResultManager::total_count
total_count(store) == Len(store)

\* the arguments of set_filter
FilterBounds == {<<0, 2>>, <<1, 4>>, <<2, 2>>}

TypeIdLists == {<<>>, <<0>>, <<1>>, <<0, 9>>}

\* set_filter: the five fields are overwritten
SetFilter ==
    \E enable_address_filter \in BOOLEAN, b \in FilterBounds,
       enable_type_filter \in BOOLEAN, type_ids \in TypeIdLists :
        /\ filter' = [enable_address_filter |-> enable_address_filter,
                      address_start |-> b[1],
                      address_end |-> b[2],
                      enable_type_filter |-> enable_type_filter,
                      type_ids |-> filter_map_from_id(type_ids)]
        /\ got' = [kind |-> "none"]
        /\ UNCHANGED <<mem, query, deep, per_chunk_size, rwlock>>
        /\ UNCHANGED <<svars, mvars, pvars, tvars, rvars>>

\* clear_filter: the filter is the default one again
ClearFilter ==
    /\ filter # SearchFilter_new
    /\ filter' = SearchFilter_new
    /\ got' = [kind |-> "none"]
    /\ UNCHANGED <<mem, query, deep, per_chunk_size, rwlock>>
    /\ UNCHANGED <<svars, mvars, pvars, tvars, rvars>>

\* get_results of the manager: the call is handed to the store as it is
GetResults ==
    \E first \in 0..1, count \in {1, MemSize} :
        /\ got' = [kind |-> "ok", start |-> first, size |-> count,
                   total |-> total_count(result_mgr),
                   items |-> get_results(result_mgr, first, count)]
        /\ UNCHANGED <<mem, query, deep, per_chunk_size, rwlock, filter>>
        /\ UNCHANGED <<svars, mvars, pvars, tvars, rvars>>

\* SearchResultManager::remove_result(index): the item at the index is
\* taken out, the others keep their order
remove_result(store, index) ==
    SubSeq(store, 1, index) \o SubSeq(store, index + 2, Len(store))

\* SearchResultManager::remove_results_batch(indices): the items at the
\* indexes, as they were counted before the call, are taken out
remove_results_batch(store, indices) ==
    LET kept == SortedSeq({k \in 1..Len(store) : (k - 1) \notin indices})
    IN  [j \in 1..Len(kept) |-> store[kept[j]]]

\* the actions that change the store leave the filter alone; the last
\* enumeration is of a store that is no more
StoreOnly ==
    /\ got' = [kind |-> "none"]
    /\ UNCHANGED <<mem, query, deep, per_chunk_size, rwlock, filter>>
    /\ UNCHANGED <<regions, all_results, completed, callbacks, ret, call, lock_poisoned,
                   mpc>>
    /\ UNCHANGED <<svars, pvars, tvars, rvars>>

\* clear_results: the store is emptied
ClearResults ==
    /\ mpc \in {"idle", "returned"}
    /\ result_mgr # <<>>
    /\ result_mgr' = <<>>
    /\ StoreOnly

\* remove_result(index), of an item the store holds
RemoveResult ==
    \E index \in 0..(Len(result_mgr) - 1) :
        /\ mpc \in {"idle", "returned"}
        /\ result_mgr' = remove_result(result_mgr, index)
        /\ StoreOnly

\* remove_results_batch(indices), of two or more items the store holds
RemoveResultsBatch ==
    \E indices \in SUBSET (0..(Len(result_mgr) - 1)) :
        /\ mpc \in {"idle", "returned"}
        /\ Cardinality(indices) >= 2
        /\ result_mgr' = remove_results_batch(result_mgr, indices)
        /\ StoreOnly

\* get_results, clear_results, remove_result or remove_results_batch: the
\* store returns Err and the manager hands it on
StoreErr ==
    /\ mpc \in {"idle", "returned"}
    /\ got # [kind |-> "err"]
    /\ got' = [kind |-> "err"]
    /\ UNCHANGED <<mem, query, deep, per_chunk_size, rwlock, filter>>
    /\ UNCHANGED <<svars, mvars, pvars, tvars, rvars>>

NextFilter ==
    \/ SetFilter \/ ClearFilter \/ GetResults
    \/ ClearResults \/ RemoveResult \/ RemoveResultsBatch \/ StoreErr
    \/ init

\* the manager holding the results of an earlier search
InitFilter ==
    \E st \in Stores :
        /\ mem = [a \in 0..(MemSize - 1) |-> 0]
        /\ per_chunk_size = 4
        /\ query = Query(<<>>, "Ordered", 0)
        /\ deep = FALSE
        /\ NoScan
        /\ regions = <<>>
        /\ all_results = <<>>
        /\ completed = <<>>
        /\ result_mgr = st
        /\ callbacks = <<>>
        /\ ret = [kind |-> "none"]
        /\ call = [op |-> "none", callback |-> FALSE, n |-> 0, totals |-> <<>>]
        /\ lock_poisoned = FALSE
        /\ mpc = "idle"
        /\ rwlock = [readers |-> 0, writer |-> "none"]
        /\ NoHost
        /\ NoMatch

SpecFilter == InitFilter /\ [][NextFilter]_vars

-----------------------------------------------------------------------------
(* Progress reporting of search_memory: the region workers send, the        *)
(* updater task writes to the host's buffer                                 *)

\* largest number of heartbeat ticks of one updater task in one behaviour
MaxBeats == 1

\* the random words of the heartbeat
Heartbeats == {1, 2}

\* largest number of calls of ProgressBuffer::reset by the host in one behaviour
MaxResets == 1

\* the buffers the host hands to set_progress_buffer: a non-null pointer and
\* a length, of the 20 bytes of the layout or one short of it
HostPointers == {1, 2}

BufferLens == {19, 20}

\* A positive f64 not above 1 is M * 2^(-52 - e) with 2^52 <= M < 2^53; M is
\* held as five digits in base 2^13, the most significant first.
F64Base == 8192

\* the least e with c * 2^e >= t
RECURSIVE f64_exponent(_, _, _)
f64_exponent(c, t, e) == IF c >= t THEN e ELSE f64_exponent(2 * c, t, e + 1)

\* n digits of r / t behind the point, and what is left of r
RECURSIVE f64_digits(_, _, _)
f64_digits(r, t, n) ==
    IF n = 0 THEN [digits |-> <<>>, rem |-> r]
    ELSE LET rest == f64_digits((r * F64Base) % t, t, n - 1)
         IN  [digits |-> <<(r * F64Base) \div t>> \o rest.digits, rem |-> rest.rem]

\* m * k + carry; the first digit takes what does not fit
RECURSIVE f64_times(_, _, _)
f64_times(m, k, carry) ==
    IF Len(m) = 1 THEN <<m[1] * k + carry>>
    ELSE LET s == m[Len(m)] * k + carry
         IN  f64_times(SubSeq(m, 1, Len(m) - 1), k, s \div F64Base) \o <<s % F64Base>>

\* c as f64 / t as f64 for 0 < c <= t: the quotient rounded to 53 bits, ties
\* to even
f64_div(c, t) ==
    LET e == f64_exponent(c, t, 0)
        d == f64_digits(c * 2^e - t, t, 4)
        m == <<1>> \o d.digits
        up == 2 * d.rem > t \/ (2 * d.rem = t /\ m[5] % 2 = 1)
    IN  [e |-> e, m |-> f64_times(m, 1, IF up THEN 1 ELSE 0)]

\* (x * 100.0) as i32: the product rounded to 53 bits, then cut to an integer.
\* The product has 59 or 60 bits, half a unit of its last place is 32 or 64,
\* and the integers are among the values it can round to.
f64_times_100_as_i32(x) ==
    LET p == f64_times(x.m, 100, 0)
        half == IF p[1] >= 128 THEN 64 ELSE 32
        rounded == f64_times(p, 1, half)
    IN  IF x.e > 8 THEN 0 ELSE rounded[1] \div 2^x.e

\* ((completed as f64 / total_regions as f64) * 100.0) as i32, for
\* completed <= total_regions
percent(done, total_regions) ==
    IF done = 0 THEN 0 ELSE f64_times_100_as_i32(f64_div(done, total_regions))

\* ProgressBuffer::update and update_heartbeat: nothing through a null
\* pointer, nothing into a buffer of less than 20 bytes
write_through(buffer, w, rec) ==
    IF buffer.ptr = 0 \/ buffer.len < 20 THEN w ELSE Append(w, rec)

\* what updater task i writes under: is its channel closed and drained, does
\* the manager still hold its pointer
Circumstances(i) ==
    [task |-> i,
     closed |-> channel[i].senders = 0 /\ channel[i].queue = <<>>,
     current |-> progress_buffer.some /\ progress_buffer.ptr = updater[i].ptr]

\* what the host writes under when it calls a ProgressBuffer of its own: no
\* task and no channel
HostCall(ptr) ==
    [task |-> 0,
     closed |-> FALSE,
     current |-> progress_buffer.some /\ progress_buffer.ptr = ptr]

\* ProgressBuffer::update: the three counters
update(buffer, w, msg, at) ==
    write_through(buffer, w,
        [ptr |-> buffer.ptr, word |-> "counters", progress |-> msg.progress,
         regions_searched |-> msg.regions_searched, total_found |-> msg.total_found,
         heartbeat |-> 0, task |-> at.task, closed |-> at.closed,
         current |-> at.current])

\* ProgressBuffer::update_heartbeat
update_heartbeat(buffer, w, heartbeat, at) ==
    write_through(buffer, w,
        [ptr |-> buffer.ptr, word |-> "heartbeat", progress |-> 0, regions_searched |-> 0,
         total_found |-> 0, heartbeat |-> heartbeat, task |-> at.task,
         closed |-> at.closed, current |-> at.current])

\* the writes of the host's calls of reset to one word
HostWrites(word) == SelectSeq(writes, LAMBDA w : w.task = 0 /\ w.word = word)

\* the actions of this section leave the store, the scan and the filter alone
ProgressOnly ==
    /\ UNCHANGED <<mem, query, deep, per_chunk_size, rwlock>>
    /\ UNCHANGED <<svars, mvars, fvars, tvars>>

\* a worker: completed_regions.fetch_add(1) + 1
WorkerCounts ==
    \E idx \in 1..Len(workers) :
        /\ workers[idx].pc = "fetch_completed"
        /\ completed_regions' = completed_regions + 1
        /\ workers' = [workers EXCEPT ![idx] =
               [pc |-> "fetch_found", completed |-> completed_regions + 1,
                total_found |-> 0]]
        /\ UNCHANGED <<progress_buffer, channel, updater, progress_updater,
                       total_found_count, writes>>
        /\ UNCHANGED rvars
        /\ ProgressOnly

\* a worker: total_found_count.fetch_add(found_in_region) + found_in_region
WorkerAdds ==
    \E idx \in 1..Len(workers) :
        /\ workers[idx].pc = "fetch_found"
        /\ total_found_count' = total_found_count + Cardinality(all_results[idx].set)
        /\ workers' = [workers EXCEPT ![idx] =
               [pc |-> "send", completed |-> workers[idx].completed,
                total_found |-> total_found_count + Cardinality(all_results[idx].set)]]
        /\ UNCHANGED <<progress_buffer, channel, updater, progress_updater,
                       completed_regions, writes>>
        /\ UNCHANGED rvars
        /\ ProgressOnly

\* a worker: tx.send((progress, completed, total_found))
WorkerSends ==
    \E idx \in 1..Len(workers) :
        /\ workers[idx].pc = "send"
        /\ channel' = [channel EXCEPT ![progress_updater].queue = Append(@,
               [progress |-> percent(workers[idx].completed, Len(regions)),
                regions_searched |-> workers[idx].completed,
                total_found |-> workers[idx].total_found])]
        /\ workers' = [workers EXCEPT ![idx].pc = "done"]
        /\ UNCHANGED <<progress_buffer, updater, progress_updater, completed_regions,
                       total_found_count, writes>>
        /\ UNCHANGED rvars
        /\ ProgressOnly

\* an updater task: rx.recv() yields an update, the counters are written
UpdaterRecv ==
    \E i \in 1..Len(updater) :
        /\ channel[i].queue # <<>>
        /\ writes' = update(updater[i], writes, Head(channel[i].queue), Circumstances(i))
        /\ channel' = [channel EXCEPT ![i].queue = Tail(@)]
        /\ UNCHANGED <<progress_buffer, updater, progress_updater, completed_regions,
                       total_found_count, workers>>
        /\ UNCHANGED rvars
        /\ ProgressOnly

\* an updater task: the interval ticks, a random heartbeat is written.  The
\* tick branch of the select! is never disabled, so the else branch with the
\* break is never taken and the task has no exit.
UpdaterHeartbeat ==
    \E i \in 1..Len(updater), heartbeat \in Heartbeats :
        /\ updater[i].beats < MaxBeats
        /\ writes' = update_heartbeat(updater[i], writes, heartbeat, Circumstances(i))
        /\ updater' = [updater EXCEPT ![i].beats = @ + 1]
        /\ UNCHANGED <<progress_buffer, channel, progress_updater, completed_regions,
                       total_found_count, workers>>
        /\ UNCHANGED rvars
        /\ ProgressOnly

\* ProgressBuffer::reset, first statement: update(0, 0, 0).  Nothing in src/
\* calls reset; it is public, and the host calls it on a ProgressBuffer made
\* of a pointer and a length of its own, in a thread of its own, whatever the
\* manager and the updater tasks are doing.
ResetCounters ==
    \E ptr \in HostPointers, len \in BufferLens :
        /\ Len(HostWrites("counters")) < MaxResets
        /\ Len(HostWrites("counters")) = Len(HostWrites("heartbeat"))
        /\ writes' = update([ptr |-> ptr, len |-> len], writes,
                         [progress |-> 0, regions_searched |-> 0, total_found |-> 0],
                         HostCall(ptr))
        /\ UNCHANGED <<progress_buffer, channel, updater, progress_updater,
                       completed_regions, total_found_count, workers>>
        /\ UNCHANGED rvars
        /\ ProgressOnly

\* ProgressBuffer::reset, second statement: update_heartbeat(0), through the
\* buffer the counters were written through
ResetHeartbeat ==
    /\ Len(HostWrites("counters")) > Len(HostWrites("heartbeat"))
    /\ LET ptr == HostWrites("counters")[Len(HostWrites("counters"))].ptr
       IN writes' = update_heartbeat([ptr |-> ptr, len |-> 20], writes, 0, HostCall(ptr))
    /\ UNCHANGED <<progress_buffer, channel, updater, progress_updater,
                   completed_regions, total_found_count, workers>>
    /\ UNCHANGED rvars
    /\ ProgressOnly

reset == ResetCounters \/ ResetHeartbeat

\* set_progress_buffer(ptr, len), between two calls of the manager
SetProgressBufferOf(ptrs, lens) ==
    \E ptr \in ptrs, len \in lens :
        /\ mpc \in {"idle", "returned", "panicked"}
        /\ progress_buffer # [some |-> TRUE, ptr |-> ptr, len |-> len]
        /\ progress_buffer' = [some |-> TRUE, ptr |-> ptr, len |-> len]
        /\ UNCHANGED <<channel, updater, progress_updater, completed_regions,
                       total_found_count, workers, writes>>
        /\ UNCHANGED rvars
        /\ ProgressOnly

SetProgressBuffer == SetProgressBufferOf(HostPointers, BufferLens)

\* clear_progress_buffer, between two calls of the manager
ClearProgressBuffer ==
    /\ mpc \in {"idle", "returned", "panicked"}
    /\ progress_buffer.some
    /\ progress_buffer' = [some |-> FALSE, ptr |-> 0, len |-> 0]
    /\ UNCHANGED <<channel, updater, progress_updater, completed_regions,
                   total_found_count, workers, writes>>
    /\ UNCHANGED rvars
    /\ ProgressOnly

\* the calls of the progress runs: one value and two, one region and two
ProgressQueries == {Query(<<B(1)>>, "Ordered", 0), Query(<<B(1), B(2)>>, "Ordered", 2)}

ProgressRegionLists == {<<<<0, MemSize>>>>, <<<<0, 4>>, <<4, MemSize>>>>}

NextProgress ==
    \/ SearchMemoryOf(ProgressQueries, ProgressRegionLists, 1) \/ RegionWorker \/ Collect
    \/ WorkerCounts \/ WorkerAdds \/ WorkerSends
    \/ UpdaterRecv \/ UpdaterHeartbeat
    \/ SetProgressBuffer \/ ClearProgressBuffer
    \/ init

\* target memories of the progress runs: the value 1 at the start of a page,
\* the value 2 behind the first one
ProgressMemories ==
    {m \in PairMemories : \A a \in 0..(MemSize - 1) :
        m[a] # 0 => ((a \in {0, 4} /\ m[a] = 1) \/ (a = 1 /\ m[a] = 2))}

\* the manager after init, the host about to set its progress buffer
InitProgress ==
    \E m \in ProgressMemories :
        /\ mem = m
        /\ per_chunk_size = 4
        /\ query = Query(<<>>, "Ordered", 0)
        /\ deep = FALSE
        /\ NoScan
        /\ regions = <<>>
        /\ all_results = <<>>
        /\ completed = <<>>
        /\ result_mgr = <<>>
        /\ callbacks = <<>>
        /\ ret = [kind |-> "none"]
        /\ call = [op |-> "none", callback |-> FALSE, n |-> 0, totals |-> <<>>]
        /\ lock_poisoned = FALSE
        /\ mpc = "idle"
        /\ rwlock = [readers |-> 0, writer |-> "none"]
        /\ NoHost
        /\ NoMatch

SpecProgress == InitProgress /\ [][NextProgress]_vars

\* search_memory of one region with a progress buffer, and a host that calls
\* ProgressBuffer::reset at any time
NextReset ==
    \/ SearchMemoryOf(ProgressQueries, {<<<<0, MemSize>>>>}, 1) \/ RegionWorker \/ Collect
    \/ WorkerCounts \/ WorkerAdds \/ WorkerSends
    \/ UpdaterRecv \/ UpdaterHeartbeat
    \/ SetProgressBuffer \/ ClearProgressBuffer
    \/ reset

SpecReset == InitProgress /\ [][NextReset]_vars

-----------------------------------------------------------------------------
(* Progress reporting of refine_search: the call spawns an updater task and *)
(* a monitor task, which sends the counters of the scan                     *)

\* largest number of ticks of one monitor task that find addresses left to
\* process
MaxTicks == 1

\* largest number of refine_search calls of one behaviour that spawn a monitor
MaxMonitors == 1

\* the monitor task of the call in progress, with processed_counter and
\* total_found_counter
Monitor == progress_monitor[Len(progress_monitor)]

\* the actions of a refine_search in progress leave these alone
RefineOnly ==
    /\ UNCHANGED <<mem, query, deep, per_chunk_size, regions, all_results, completed,
                   call, lock_poisoned, rwlock>>
    /\ UNCHANGED <<progress_buffer, updater, completed_regions, total_found_count,
                   workers, writes, refine_current>>
    /\ UNCHANGED <<svars, fvars, tvars>>

\* result_mgr.clear() returns Ok: the store is empty, the call holds its sender
\* beside the monitor's and goes on to the scan
RefineCleared ==
    /\ result_mgr' = <<>>
    /\ channel' = Append(channel, [queue |-> <<>>, senders |-> 2])
    /\ progress_updater' = Len(channel) + 1
    /\ ret' = [kind |-> "none"]
    /\ mpc' = "refining"

\* result_mgr.clear()? returns Err (534): refine_search returns it with the
\* store as it was; the sender of the call is dropped with its locals, the
\* updater task and the monitor task stay behind, the monitor with its own
\* sender and counters that no scan will advance
RefineClearFails ==
    /\ result_mgr' = result_mgr
    /\ channel' = Append(channel, [queue |-> <<>>, senders |-> 1])
    /\ progress_updater' = 0
    /\ ret' = [kind |-> "err"]
    /\ mpc' = "returned"

\* refine_search of a manager with a progress buffer, up to the scan: the
\* updater task and the monitor task are spawned, the latter with a sender of
\* its own, and the store is cleared, or refuses to be
RefineBegin ==
    \E q \in RefineQueries, cb \in BOOLEAN :
        /\ RefineCall(q, cb)
        /\ progress_buffer.some
        /\ result_mgr # <<>>
        /\ Len(progress_monitor) < MaxMonitors
        /\ refine_current' = result_mgr
        /\ updater' = Append(updater, [ptr |-> progress_buffer.ptr,
                                       len |-> progress_buffer.len, beats |-> 0])
        /\ progress_monitor' = Append(progress_monitor,
               [state |-> "running", tx |-> Len(channel) + 1, total |-> Len(result_mgr),
                processed |-> 0, found |-> 0, processed_count |-> 0, ticks |-> 0])
        /\ RefineCleared \/ RefineClearFails
        /\ UNCHANGED <<mem, deep, per_chunk_size, regions, all_results, completed,
                       callbacks, lock_poisoned, rwlock, progress_buffer,
                       completed_regions, total_found_count, workers, writes>>
        /\ UNCHANGED <<svars, fvars, tvars>>

\* the scan has handled one more address: processed_counter goes up by one
RefineProcess ==
    /\ mpc = "refining"
    /\ Monitor.processed < Monitor.total
    /\ progress_monitor' = [progress_monitor EXCEPT ![Len(progress_monitor)].processed = @ + 1]
    /\ UNCHANGED <<result_mgr, callbacks, ret, mpc, channel, progress_updater>>
    /\ RefineOnly

\* what the scan of the call in progress keeps
Refined == into_iter(refined_results(refine_current, query, mem))

\* the scan returns Ok: total_found_counter.store(refined_results.len()), and
\* the call waits for the monitor task
RefineScanned ==
    /\ mpc = "refining"
    /\ Monitor.processed = Monitor.total
    /\ progress_monitor' = [progress_monitor EXCEPT ![Len(progress_monitor)].found =
                                Len(Refined)]
    /\ mpc' = "waiting"
    /\ UNCHANGED <<result_mgr, callbacks, ret, channel, progress_updater>>
    /\ RefineOnly

\* after the store was cleared a callee returns Err while the monitor runs
\* (the ? of 535, 544, 551) or add_results_batch does after the wait (569):
\* the error is returned with the store cleared, no callback is made, the
\* sender of the call is dropped and the monitor task is left to itself.  The
\* Err of clear() itself (534) is RefineClearFails.
RefineErr ==
    /\ \/ mpc = "refining"
       \/ mpc = "waiting" /\ Monitor.state = "done" /\ Refined # <<>>
    /\ ret' = [kind |-> "err"]
    /\ mpc' = "returned"
    /\ channel' = drop_tx(channel, progress_updater)
    /\ progress_updater' = 0
    /\ UNCHANGED <<result_mgr, callbacks, progress_monitor>>
    /\ RefineOnly

\* a monitor task: the interval ticks and processed_counter is loaded
MonitorTick ==
    \E i \in 1..Len(progress_monitor) :
        LET mon == progress_monitor[i]
        IN  /\ mon.state = "running"
            /\ mon.processed < mon.total => mon.ticks < MaxTicks
            /\ progress_monitor' = [progress_monitor EXCEPT ![i] =
                   [mon EXCEPT !.state = "loaded",
                               !.processed_count = mon.processed,
                               !.ticks = IF mon.processed < mon.total THEN @ + 1 ELSE @]]
            /\ UNCHANGED <<result_mgr, callbacks, ret, mpc, channel, progress_updater>>
            /\ RefineOnly

\* a monitor task: total_found_counter is loaded, which the call may have
\* stored to since the other load, and the counters are sent; the task ends,
\* and drops its sender, when the count it loaded reaches the total
MonitorSend ==
    \E i \in 1..Len(progress_monitor) :
        LET mon == progress_monitor[i]
            over == mon.processed_count >= mon.total
            msg == [progress |-> IF mon.total > 0
                                 THEN percent(mon.processed_count, mon.total) ELSE 0,
                    regions_searched |-> mon.processed_count,
                    total_found |-> mon.found]
        IN  /\ mon.state = "loaded"
            /\ channel' = [channel EXCEPT ![mon.tx] =
                   [queue |-> Append(@.queue, msg),
                    senders |-> IF over THEN @.senders - 1 ELSE @.senders]]
            /\ progress_monitor' = [progress_monitor EXCEPT ![i].state =
                   IF over THEN "done" ELSE "running"]
            /\ UNCHANGED <<result_mgr, callbacks, ret, mpc, progress_updater>>
            /\ RefineOnly

\* refine_search after TOKIO_RUNTIME.block_on(handle): the refined results are
\* stored, the callback is made, Ok(final_count)
RefineFinish ==
    /\ mpc = "waiting"
    /\ Monitor.state = "done"
    /\ Completes(add_results_batch(<<>>, Refined), 1, call.callback, call.n)
    /\ channel' = drop_tx(channel, progress_updater)
    /\ progress_updater' = 0
    /\ UNCHANGED progress_monitor
    /\ RefineOnly

\* a manager that is given no progress buffer
NextRefine == init \/ RefineSearch

SpecRefine == InitRefine /\ [][NextRefine]_vars

\* the buffer of the refine runs
RefinePointers == {1}

RefineBufferLens == {20}

NextRefineProgress ==
    \/ init \/ RefineSearch
    \/ RefineBegin \/ RefineProcess \/ RefineScanned \/ RefineErr \/ RefineFinish
    \/ MonitorTick \/ MonitorSend \/ UpdaterRecv \/ UpdaterHeartbeat
    \/ SetProgressBufferOf(RefinePointers, RefineBufferLens) \/ ClearProgressBuffer

\* the results an earlier search left in the progress runs
ProgressStores ==
    {<<ValuePair(0, "Byte"), ValuePair(1, "Byte")>>,
     <<ValuePair(0, "Byte"), ValuePair(1, "Byte"), ValuePair(4, "Byte")>>}

\* the manager holding the results of an earlier search, the host about to
\* set its progress buffer
InitRefineProgress ==
    \E m \in ProgressMemories, st \in ProgressStores :
        /\ mem = m
        /\ per_chunk_size = 4
        /\ query = Query(<<>>, "Ordered", 0)
        /\ deep = FALSE
        /\ NoScan
        /\ regions = <<>>
        /\ all_results = <<>>
        /\ completed = <<>>
        /\ result_mgr = st
        /\ callbacks = <<>>
        /\ ret = [kind |-> "none"]
        /\ call = [op |-> "none", callback |-> FALSE, n |-> 0, totals |-> <<>>]
        /\ lock_poisoned = FALSE
        /\ mpc = "idle"
        /\ rwlock = [readers |-> 0, writer |-> "none"]
        /\ NoHost
        /\ NoMatch

SpecRefineProgress == InitRefineProgress /\ [][NextRefineProgress]_vars

-----------------------------------------------------------------------------
(* The group matcher called on one window *)

\* longest window handed to the matcher
MaxWindow == 5

Windows == UNION {[1..n -> ByteVals] : n \in 0..MaxWindow}

\* queries of the matcher calls: equal and mixed sizes, a value asked for twice
MatchValues ==
    {<<B(1), B(2)>>, <<B(1), B(1)>>, <<B(1), B(2), B(1)>>,
     <<W(1, 0), W(2, 0)>>, <<B(1), W(2, 0)>>, <<W(1, 0), B(2)>>}

MatchQueries ==
    {Query(vs, md, SumSizes(vs)) : vs \in MatchValues, md \in {"Ordered", "Unordered"}}

\* try_match_group_at_address(&buffer[..], check_start, query)
TryMatch ==
    /\ ~match_result.called
    /\ match_result' = [called |-> TRUE,
                        value |-> try_match_group_at_address(match_buffer, 0, query)]
    /\ UNCHANGED <<mem, query, deep, per_chunk_size, rwlock, match_buffer>>
    /\ UNCHANGED <<svars, mvars, fvars, pvars, rvars>>

NextMatch == TryMatch

\* a window and a query, the matcher not yet called
InitMatch ==
    \E w \in Windows, q \in MatchQueries :
        /\ mem = [a \in 0..(MemSize - 1) |-> 0]
        /\ per_chunk_size = 4
        /\ query = q
        /\ deep = FALSE
        /\ NoScan
        /\ regions = <<>>
        /\ all_results = <<>>
        /\ completed = <<>>
        /\ result_mgr = <<>>
        /\ callbacks = <<>>
        /\ ret = [kind |-> "none"]
        /\ call = [op |-> "none", callback |-> FALSE, n |-> 0, totals |-> <<>>]
        /\ lock_poisoned = FALSE
        /\ mpc = "none"
        /\ rwlock = [readers |-> 0, writer |-> "none"]
        /\ NoHost
        /\ match_buffer = w
        /\ match_result = [called |-> FALSE, value |-> None]

SpecMatch == InitMatch /\ [][NextMatch]_vars

-----------------------------------------------------------------------------
(* Vocabulary of the claims: what target memory holds inside the region.    *)
(* Used for queries whose values all have the size of the first one.        *)

ResultAddrs == {p.addr : p \in results}

ValueCount == Len(query.values)

Stride == size(query.values[1].value_type)

MemBytes(a, n) == [i \in 1..n |-> mem[a + i - 1]]

\* the size-aligned addresses of the region that hold a whole value
Slots == {a \in start..(end - 1) : a % Stride = 0 /\ a + Stride <= end}

\* target memory at a satisfies the i-th value of the query
ValAt(a, i) == a \in Slots /\ matched(query.values[i], MemBytes(a, Stride))

\* a complete, in-order, tightly packed copy of the sequence starts at a
CopyAt(a) == \A i \in 1..ValueCount : ValAt(a + (i - 1) * Stride, i)

CopyStarts == {a \in Slots : CopyAt(a)}

\* the in-order assignments of addresses to the values inside the range-byte
\* window that starts at a, with the first value at a
AssignmentsAt(a) ==
    LET window == {b \in Slots : a <= b /\ b + Stride <= a + query.range}
    IN {f \in [1..ValueCount -> window] :
           /\ f[1] = a
           /\ \A i \in 1..ValueCount : ValAt(f[i], i)
           /\ \A i, j \in 1..ValueCount : i < j => f[i] < f[j]}

\* the first match: the assignment that takes the earliest position for each
\* value in turn
FirstMatch(S) ==
    CHOOSE f \in S : \A g \in S :
        f = g \/ \E i \in 1..ValueCount :
                    /\ f[i] < g[i]
                    /\ \A j \in 1..(i - 1) : f[j] = g[j]

Image(f) == {f[i] : i \in DOMAIN f}

\* the addresses of an emitted match
MatchAddrs(e) == [i \in 1..Len(e.offsets) |-> e.check_start + e.offsets[i]]

-----------------------------------------------------------------------------
(* C1 *)

\* the size of the i-th value of the query and its offset in a tightly packed
\* copy of the sequence
SizeOf(i) == size(query.values[i].value_type)

PackedOffset(i) == SumSizes(SubSeq(query.values, 1, i - 1))

\* the bytes of target memory at a, inside the region, satisfy the i-th value
HoldsAt(a, i) ==
    /\ a >= start
    /\ a + SizeOf(i) <= end
    /\ matched(query.values[i], MemBytes(a, SizeOf(i)))

\* a complete, in-order, tightly packed, size-aligned copy starts at a
PackedCopyAt(a) ==
    \A i \in 1..ValueCount :
        /\ (a + PackedOffset(i)) % SizeOf(i) = 0
        /\ HoldsAt(a + PackedOffset(i), i)

PackedStarts == {a \in start..(end - 1) : PackedCopyAt(a)}

PackedAddrs == {a + PackedOffset(i) : a \in PackedStarts, i \in 1..ValueCount}

\* the in-order occurrences of the whole sequence inside one range-byte window
\* of the region: the values in query order, one after the end of the other,
\* tightly packed or with gaps between them
Occurrences ==
    {f \in [1..ValueCount -> start..(end - 1)] :
        /\ \A i \in 1..ValueCount : HoldsAt(f[i], i)
        /\ \A i \in 1..(ValueCount - 1) : f[i + 1] >= f[i] + SizeOf(i)
        /\ f[ValueCount] + SizeOf(ValueCount) <= f[1] + query.range}

\* an Ordered search has returned, range >= the sum of the value sizes
OrderedDone ==
    pc = "done" /\ query.mode = "Ordered" /\ query.range >= SumSizes(query.values)

-----------------------------------------------------------------------------
(* C2 *)

\* the first match anchored at a has a value that ends beyond boundary b
Straddles(a, b) ==
    /\ a < b
    /\ AssignmentsAt(a) # {}
    /\ \E i \in 1..ValueCount : FirstMatch(AssignmentsAt(a))[i] + Stride > b

\* the boundaries between two consecutive chunks of the scan
Boundaries == {reads[k].addr : k \in 2..Len(reads)}

\* the end of the chunk that starts at b
ChunkEnd(b) ==
    LET k == CHOOSE j \in 1..Len(reads) : reads[j].addr = b
    IN reads[k].addr + reads[k].len

-----------------------------------------------------------------------------
(* C3 *)

\* C3 as stated: every value of every emitted match was decoded from bytes of
\* a page the reader reported as successfully read, including the values
\* that lie in the overlap prefix and the values after the first one.
C3_PageSafety ==
    \A e \in emitted : \A i \in 1..Len(e.oks) : e.oks[i]

-----------------------------------------------------------------------------
(* C4 *)

\* C4 as stated: for a fixed memory, region and query, search_region_group
\* returns the same result set for every chunk size >= range.
C4_ChunkIndependence ==
    pc = "done" =>
        \A c \in ChunkSizes :
            c >= query.range =>
                search_region_group(deep, query, start, end, c, mem) = results

-----------------------------------------------------------------------------
(* C5 *)

\* the buffer and page status of the last chunk read
LastRead == reads[Len(reads)]

LastBuffer == Slice(sliding_buffer, per_chunk_size, per_chunk_size + LastRead.len)

LastStatus == [base |-> LastRead.addr, bits |-> LastRead.bits]

\* C5 as stated: on a buffer, page status and query with at least one fixed
\* value and range >= the sum of the value sizes, search_in_buffer_group and
\* search_in_buffer_group_fallback insert the same set of (address, type).
C5_AnchorEquivalence ==
    (pc = "done" /\ reads # <<>> /\ anchor_index(query) # 0
     /\ query.range >= SumSizes(query.values)) =>
        search_in_buffer_group(LastBuffer, LastRead.addr, start, end,
                               min_element_size(query), query, LastStatus, {})
        = search_in_buffer_group_fallback(LastBuffer, LastRead.addr, start, end,
                               min_element_size(query), query, LastStatus, {})

-----------------------------------------------------------------------------
(* C6 *)

\* C6: the result set of the deep search contains every address of the result
\* set of the standard search of the same memory, region and query with the
\* same chunk size.
C6_DeepSuperset ==
    (pc = "done" /\ deep) =>
        {p.addr : p \in search_region_group(FALSE, query, start, end, per_chunk_size, mem)}
            \subseteq ResultAddrs

\* the deep search returned strictly more than the non-empty standard result
C6_Witness ==
    /\ pc = "done"
    /\ deep
    /\ Len(reads) >= 2
    /\ search_region_group(FALSE, query, start, end, per_chunk_size, mem) # {}
    /\ {p.addr : p \in search_region_group(FALSE, query, start, end, per_chunk_size, mem)}
           # ResultAddrs
    /\ {p.addr : p \in search_region_group(FALSE, query, start, end, per_chunk_size, mem)}
           \subseteq ResultAddrs

-----------------------------------------------------------------------------
(* C7 *)

\* C7: a deep Ordered search of a readable region emits every address that
\* takes part in at least one in-order combination of the query values lying
\* inside a range-byte window that starts with the first value.
C7_DeepOrderedComplete ==
    (pc = "done" /\ deep /\ query.mode = "Ordered") =>
        \A a \in Slots : \A f \in AssignmentsAt(a) : Image(f) \subseteq ResultAddrs

\* a window holds the middle value twice: two combinations share their first
\* and last values, both are emitted, the standard search reports only the
\* first
C7_Witness ==
    /\ pc = "done"
    /\ deep
    /\ query.mode = "Ordered"
    /\ ValueCount = 3
    /\ Len(reads) >= 2
    /\ \E a \in Slots :
           /\ \E f, g \in AssignmentsAt(a) : f[2] # g[2] /\ f[3] = g[3]
           /\ \A f \in AssignmentsAt(a) : Image(f) \subseteq ResultAddrs
           /\ \E f \in AssignmentsAt(a) :
                  ~(Image(f) \subseteq
                      {p.addr : p \in search_region_group(FALSE, query, start, end,
                                                          per_chunk_size, mem)})

-----------------------------------------------------------------------------
(* C8 *)

\* C8 as stated: every (address, type) emitted by the group scan has an
\* address that is a multiple of size(type), also for queries of mixed sizes.
C8_Alignment ==
    \A e \in emitted : \A i \in 1..Len(e.offsets) :
        (e.check_start + e.offsets[i]) % size(query.values[i].value_type) = 0

-----------------------------------------------------------------------------
(* C9 *)

\* C9 as stated: in Ordered mode the span of every emitted match, from the
\* address of its first value to the end of its last value, is <= range.
C9_OrderedSpan ==
    query.mode = "Ordered" =>
        \A e \in emitted :
            (e.offsets[ValueCount] + size(query.values[ValueCount].value_type))
                - e.offsets[1] <= query.range

-----------------------------------------------------------------------------
(* C10 *)

\* C10: in Unordered mode every address emitted for a match validated around
\* an anchor at address a lies within [a - range, a + range), together with
\* the bytes of its value.
C10_UnorderedWindow ==
    query.mode = "Unordered" =>
        \A e \in emitted :
            e.anchor >= 0 =>
                \A i \in 1..Len(e.offsets) :
                    /\ e.anchor - query.range <= e.check_start + e.offsets[i]
                    /\ e.check_start + e.offsets[i] + size(query.values[i].value_type)
                           <= e.anchor + query.range

\* a match around an anchor with a value before the anchor, and a match with
\* a value after its anchor, found over several chunks
C10_Witness ==
    /\ pc = "done"
    /\ query.mode = "Unordered"
    /\ Len(reads) >= 2
    /\ \E e \in emitted :
           /\ e.anchor >= 0
           /\ \E i \in 1..Len(e.offsets) : e.check_start + e.offsets[i] < e.anchor
    /\ \E e \in emitted :
           /\ e.anchor >= 0
           /\ \E i \in 1..Len(e.offsets) : e.check_start + e.offsets[i] > e.anchor

-----------------------------------------------------------------------------
(* C11 *)

\* first address and end of the last byte of the values of an emitted match
MatchLow(e) ==
    CHOOSE a \in Image(MatchAddrs(e)) : \A b \in Image(MatchAddrs(e)) : a <= b

MatchHigh(e) ==
    LET ends == {e.check_start + e.offsets[i] + size(query.values[i].value_type) :
                    i \in 1..Len(e.offsets)}
    IN CHOOSE a \in ends : \A b \in ends : a >= b

\* C11 as stated: in Unordered mode all values of one emitted match lie within
\* one window of range bytes: max(addr_i + size_i) - min(addr_i) <= range.
C11_UnorderedOneWindow ==
    query.mode = "Unordered" =>
        \A e \in emitted : MatchHigh(e) - MatchLow(e) <= query.range

-----------------------------------------------------------------------------
(* C12 *)

\* the i-th value of the query occurs at the size-aligned address a, wholly
\* inside the region
OccursAt(a, i) ==
    LET n == size(query.values[i].value_type)
    IN /\ a % n = 0
       /\ a >= start
       /\ a + n <= end
       /\ matched(query.values[i], MemBytes(a, n))

\* one occurrence per value, all within range bytes of each other
Gatherings ==
    {g \in [1..ValueCount -> start..(end - 1)] :
        /\ \A i \in 1..ValueCount : OccursAt(g[i], i)
        /\ \A i, j \in 1..ValueCount :
               g[j] + size(query.values[j].value_type) - g[i] <= query.range}

\* C12 as stated: when every value occurs at a size-aligned address of the
\* readable region and the occurrences lie within range bytes of each other,
\* the standard Unordered scan emits the addresses of those occurrences.
C12_UnorderedComplete ==
    (pc = "done" /\ query.mode = "Unordered"
     /\ query.range >= SumSizes(query.values)) =>
        \A g \in Gatherings : Image(g) \subseteq ResultAddrs

\* the bytes of the i-th value satisfy it at a, whatever the alignment of a and
\* whether or not a is inside the region (the first read begins at the page of
\* start)
SatisfiedAt(a, i) ==
    LET n == size(query.values[i].value_type)
    IN a + n <= end /\ matched(query.values[i], MemBytes(a, n))

\* g holds the only place of the scanned memory where each value is satisfied
Solitary(g) ==
    \A i \in 1..ValueCount :
        \A a \in PageAlign(start)..(end - 1) : SatisfiedAt(a, i) => a = g[i]

\* C12 restricted to occurrences that are the only place where each value is
\* satisfied, so that the first hit of a value can only be its gathered
\* occurrence: the addresses of the gathered occurrences are emitted.
C12_SolitaryComplete ==
    (pc = "done" /\ query.mode = "Unordered"
     /\ query.range >= SumSizes(query.values)) =>
        \A g \in Gatherings : Solitary(g) => Image(g) \subseteq ResultAddrs

-----------------------------------------------------------------------------
(* C13 *)

\* C13 as stated: search_region_group never emits an address below the region
\* start or at or after the region end, in Ordered and in Unordered mode, also
\* when start is not page-aligned and the first read begins at the page of start.
C13_RegionBounds ==
    \A r \in results : start <= r.addr /\ r.addr < end

\* the Ordered half of C13 alone
C13_OrderedBounds ==
    query.mode = "Ordered" => \A r \in results : start <= r.addr /\ r.addr < end

-----------------------------------------------------------------------------
(* C18 *)

\* the k-th read of the scan served every page of its chunk
ReadableChunk(k) ==
    reads[k].kind = "ok" /\ \A i \in 1..Len(reads[k].bits) : reads[k].bits[i]

\* the addresses of the copy that starts at a
CopyOf(a) == [i \in 1..ValueCount |-> a + (i - 1) * Stride]

\* the copy that starts at a lies wholly inside the chunk of the k-th read
CopyInside(a, k) ==
    /\ a \in CopyStarts
    /\ a >= reads[k].addr
    /\ a + ValueCount * Stride <= reads[k].addr + reads[k].len

-----------------------------------------------------------------------------
(* C14 *)

\* what each region yields for the query over the reader as it is
RegionYield(idx) ==
    region_worker(query, deep, regions[idx][1], regions[idx][2], per_chunk_size, mem, FALSE)

\* the store a search_memory whose workers finish in region-list order leaves
InOrderStore ==
    merge_results(<<>>, [idx \in 1..Len(regions) |-> RegionYield(idx)])

\* C14: for a fixed reader state, region list and query, search_memory leaves
\* the same result set whatever the order its region workers finish in and
\* whatever the store held before: the store of every invocation that returns
\* Ok, the first and the one that repeats it, is the store of the invocation
\* whose workers finish in region-list order.
C14_Determinism ==
    (mpc = "returned" /\ call.op = "search_memory" /\ ret.kind = "ok" /\ ~lock_poisoned) =>
        result_mgr = InOrderStore

\* in the second invocation the second region finished first, the two regions
\* reported one address with different types, and the store is that of the
\* in-order invocation
C14_Witness ==
    /\ mpc = "returned"
    /\ call.op = "search_memory"
    /\ call.n = 2
    /\ ret.kind = "ok"
    /\ ~lock_poisoned
    /\ completed = <<2, 1>>
    /\ \E p \in all_results[1].set : \E r \in all_results[2].set :
           p.addr = r.addr /\ p.value_type # r.value_type
    /\ result_mgr = InOrderStore

-----------------------------------------------------------------------------
(* C16 *)

\* C16: refine is idempotent.  With target memory unchanged, a refine_search
\* that returns its result right after a refine_search with the same query
\* returned its own leaves the result store as it was, for single-value and
\* for group queries.
C16_RefineIdempotent ==
    [][(/\ call.op = "refine_search" /\ mpc = "returned" /\ ret.kind = "ok"
        /\ call'.n = call.n + 1 /\ query' = query
        /\ mpc' = "returned" /\ ret'.kind = "ok")
          => result_mgr' = result_mgr]_vars

\* a group refine dropped some of the results and kept others, and was run a
\* second time on what it kept
C16_Witness ==
    /\ mpc = "returned"
    /\ ret.kind = "ok"
    /\ call.op = "refine_search"
    /\ call.n = 2
    /\ Len(query.values) > 1
    /\ call.totals[1] > call.totals[2]
    /\ call.totals[2] = Len(result_mgr)
    /\ Len(result_mgr) > 0

-----------------------------------------------------------------------------
(* C17 *)

\* the on_search_complete calls made by the current call
CallbacksOfCall == {k \in 1..Len(callbacks) : callbacks[k].call = call.n}

\* C17 as stated: a completion callback that was supplied has fired exactly
\* once when search_memory or refine_search returns Ok, with the final count,
\* also when the result is empty (a search that found nothing, a refine over
\* an empty result set).
C17_CallbackOnce ==
    (mpc = "returned" /\ ret.kind = "ok" /\ call.callback) =>
        /\ Cardinality(CallbacksOfCall) = 1
        /\ \A k \in CallbacksOfCall : callbacks[k].total_found = Len(result_mgr)

-----------------------------------------------------------------------------
(* C19 *)

\* C19 as stated, for the group scan: when search_region_group met a poisoned
\* reader lock while search_memory scanned a region, search_memory returns an
\* error, not a successful search from which the results of that region are
\* missing.
C19_PoisonSurfaced ==
    (mpc = "returned" /\ call.op = "search_memory" /\ Len(query.values) > 1
     /\ \E idx \in 1..Len(regions) : all_results[idx].kind = "err") =>
        ret.kind = "err"

-----------------------------------------------------------------------------
(* C20 *)

\* C20 as stated: search_memory refuses a query with zero values with an
\* error value before any region is scanned: no worker runs, nothing panics,
\* and what is returned is an error.
C20_EmptyQueryRefused ==
    (call.op = "search_memory" /\ Len(query.values) = 0) =>
        /\ mpc # "panicked"
        /\ completed = <<>>
        /\ mpc = "returned" => ret.kind = "err"

(* C21: search_memory refuses a group query whose range is below the sum   *)
(* of its value sizes with an error, before any region is scanned: such a   *)
(* call never returns Ok and never leaves a result in the store.            *)
RangeTooSmall ==
    /\ Len(query.values) > 1
    /\ query.range < SumSizes(query.values)

C21_RangeTooSmallRefused ==
    (call.op = "search_memory" /\ RangeTooSmall)
        => /\ completed = <<>>
           /\ result_mgr = <<>>
           /\ mpc = "returned" => ret.kind = "err"

(* C22: under the filter set by set_filter every item get_results returns   *)
(* has its address in [address_start, address_end) when the address filter  *)
(* is enabled and its type among the allowed types when the type filter is  *)
(* enabled.                                                                 *)
Allowed(item) ==
    /\ filter.enable_address_filter =>
           (filter.address_start <= item.addr /\ item.addr < filter.address_end)
    /\ filter.enable_type_filter =>
           (\E k \in 1..Len(filter.type_ids) : filter.type_ids[k] = item.value_type)

C22_FilteredEnumeration ==
    got.kind = "ok" => \A k \in 1..Len(got.items) : Allowed(got.items[k])

\* set_filter and clear_filter leave the store and its count as they are
C22_StorageUntouched ==
    [][filter' # filter =>
          (result_mgr' = result_mgr /\ total_count(result_mgr') = total_count(result_mgr))]_vars

(* C23: a region scan holds the read lock of the reader only while a chunk *)
(* is being read: between two chunk reads of a region no read guard is      *)
(* held, so that a waiting writer can take the write lock there.            *)
BetweenChunks == pc = "loop" /\ reads # <<>> /\ current < end

C23_ReleasedBetweenChunks == BetweenChunks => rwlock.readers = 0

\* a writer that waits between two chunk reads is not behind a read guard
C23_WriterNotBlocked ==
    (BetweenChunks /\ rwlock.writer = "waiting") => rwlock.readers = 0

(* C24: once the progress channel is closed and drained the updater task    *)
(* has left its loop: no counter or heartbeat write is made after that,     *)
(* through a pointer the host may have replaced or cleared since.           *)
C24_NoWriteAfterClose ==
    \A k \in 1..Len(writes) : ~writes[k].closed

\* no write goes through a pointer the manager no longer holds
C24_NoWriteThroughOldPointer ==
    \A k \in 1..Len(writes) : writes[k].task # 0 => writes[k].current

(* C25: during one search_memory the counters written to the progress       *)
(* buffer never decrease from one write to the next, word by word, and the  *)
(* percent stays within 0..100.                                             *)
CounterWrites == SelectSeq(writes, LAMBDA w : w.task # 0 /\ w.word = "counters")

C25_MonotonicProgress ==
    /\ \A k \in 1..Len(CounterWrites) :
           CounterWrites[k].progress >= 0 /\ CounterWrites[k].progress <= 100
    /\ \A j, k \in 1..Len(CounterWrites) :
           j < k => /\ CounterWrites[j].progress <= CounterWrites[k].progress
                    /\ CounterWrites[j].regions_searched <= CounterWrites[k].regions_searched
                    /\ CounterWrites[j].total_found <= CounterWrites[k].total_found

\* the percent written is within 0..100
C25_PercentInRange ==
    \A k \in 1..Len(CounterWrites) :
        CounterWrites[k].progress >= 0 /\ CounterWrites[k].progress <= 100

(* C26: in a successful match of try_match_unordered the offsets of two     *)
(* different query values are distinct, also when the query holds the same  *)
(* value twice.                                                              *)
UnorderedMatch ==
    /\ match_result.called
    /\ query.mode = "Unordered"
    /\ match_result.value.some

C26_NoAddressReuse ==
    UnorderedMatch =>
        \A i, j \in 1..Len(query.values) :
            i # j => match_result.value.offsets[i] # match_result.value.offsets[j]

(* C27: try_match_ordered takes, for each query value in list order, the    *)
(* first position at or after the cursor, in steps of the value's size,     *)
(* whose bytes match, and moves the cursor past it; it fails iff no such    *)
(* sequence of positions exists.  The offsets are strictly increasing and   *)
(* do not overlap, and for values of one size they are the component-wise   *)
(* smallest in-order assignment on the stride grid, which exists iff the    *)
(* call succeeds.                                                            *)
OrderedCall == match_result.called /\ query.mode = "Ordered"

ValueSize(i) == size(query.values[i].value_type)

MatchesAt(i, p) ==
    /\ p + ValueSize(i) <= Len(match_buffer)
    /\ matched(query.values[i], Slice(match_buffer, p, p + ValueSize(i)))

\* the cursor value i is looked for from, given the offsets o
CursorOf(o, i) == IF i = 1 THEN 0 ELSE o[i - 1] + ValueSize(i - 1)

\* o takes for every value the first matching position from its cursor on
FirstMatchScan(o) ==
    \A i \in 1..Len(query.values) :
        /\ o[i] >= CursorOf(o, i)
        /\ (o[i] - CursorOf(o, i)) % ValueSize(i) = 0
        /\ MatchesAt(i, o[i])
        /\ \A p \in CursorOf(o, i)..(o[i] - 1) :
               (p - CursorOf(o, i)) % ValueSize(i) = 0 => ~MatchesAt(i, p)

OffsetSeqs == [1..Len(query.values) -> 0..MaxWindow]

\* the values of the query all have the size of the first one
SameSize == \A i \in 1..Len(query.values) : ValueSize(i) = ValueSize(1)

\* the in-order assignments on the stride grid of the window
GridAssignments ==
    {o \in OffsetSeqs :
        /\ \A i \in 1..Len(query.values) : o[i] % ValueSize(1) = 0 /\ MatchesAt(i, o[i])
        /\ \A i \in 1..(Len(query.values) - 1) : o[i] + ValueSize(i) <= o[i + 1]}

C27_OrderedFirstMatch ==
    OrderedCall =>
        /\ match_result.value.some =>
               /\ Len(match_result.value.offsets) = Len(query.values)
               /\ FirstMatchScan(match_result.value.offsets)
               /\ \A i \in 1..(Len(query.values) - 1) :
                      match_result.value.offsets[i] + ValueSize(i)
                          <= match_result.value.offsets[i + 1]
               /\ match_result.value.offsets[Len(query.values)]
                      + ValueSize(Len(query.values)) <= Len(match_buffer)
        /\ ~match_result.value.some => ~\E o \in OffsetSeqs : FirstMatchScan(o)
        /\ SameSize =>
               /\ match_result.value.some <=> GridAssignments # {}
               /\ match_result.value.some =>
                      \A o \in GridAssignments : \A i \in 1..Len(query.values) :
                          match_result.value.offsets[i] <= o[i]

\* an ordered match that skipped a position and left a later duplicate of its
\* last value unreported
C27_Witness ==
    /\ OrderedCall
    /\ match_result.value.some
    /\ SameSize
    /\ \E i \in 1..Len(query.values) :
           match_result.value.offsets[i] > CursorOf(match_result.value.offsets, i)
    /\ \E p \in 0..MaxWindow :
           /\ p > match_result.value.offsets[Len(query.values)]
           /\ MatchesAt(Len(query.values), p)

(* C28: soundness of the standard group scan.  Every (address, type) in the *)
(* result was emitted for a query value, and when the bytes it was matched  *)
(* on came from successfully read pages, target memory at the address       *)
(* satisfies that value: on the first chunk, through the overlap view and   *)
(* on a chunk scanned alone after a failed one.                             *)
SoundAt(e, i) ==
    matched(query.values[i],
            MemBytes(e.check_start + e.offsets[i], size(query.values[i].value_type)))

ReadOk(e) == \A i \in 1..Len(e.offsets) : e.oks[i]

C28_Soundness ==
    /\ \A e \in emitted : \A i \in 1..Len(e.offsets) : e.oks[i] => SoundAt(e, i)
    /\ \A r \in results : \E e \in emitted : \E i \in 1..Len(e.offsets) :
           /\ r.addr = e.check_start + e.offsets[i]
           /\ r.value_type = query.values[i].value_type

\* with every page served, every match was made on successfully read bytes
C28_AllReadOk == \A e \in emitted : ReadOk(e)

\* a match found in a chunk scanned alone after a failed chunk
C28_Witness ==
    /\ \E e \in emitted : e.pass = "single" /\ ReadOk(e)
    /\ results # {}

\* matches found on the first chunk and through the overlap view
C28_WitnessFirst == \E e \in emitted : e.pass = "first" /\ ReadOk(e)

C28_WitnessOverlap ==
    \E e \in emitted : e.pass = "overlap" /\ ReadOk(e) /\ e.check_start < e.chunk

(* C29: sliding-buffer invariant.  Whenever a chunk is scanned through the  *)
(* overlap view, the chunk before it was read Ok with a successful page and *)
(* ended where this one starts, and the range bytes in front of the second  *)
(* half are the tail of that chunk as it was read (target memory, where the *)
(* page was served); the second half is the chunk just read.  After a       *)
(* failed chunk the next chunk is not scanned through the overlap view,     *)
(* although the failed chunk was copied to the first half like any other.   *)
ChunkRead == Len(reads') = Len(reads) + 1

NewRead == reads'[Len(reads')]

OverlapTail ==
    /\ reads # <<>>
    /\ LastRead.kind = "ok"
    /\ \E i \in 1..Len(LastRead.bits) : LastRead.bits[i]
    /\ LastRead.addr + LastRead.len = current
    /\ \A i \in 1..query.range :
           /\ sliding_buffer[per_chunk_size - query.range + i]
                  = sliding_buffer[per_chunk_size + LastRead.len - query.range + i]
           /\ buffer_ok[per_chunk_size - query.range + i]
                  => sliding_buffer[per_chunk_size - query.range + i]
                         = mem[current - query.range + i - 1]

ChunkInSecondHalf ==
    \A i \in 1..NewRead.len :
        buffer_ok'[per_chunk_size + i] =>
            sliding_buffer'[per_chunk_size + i] = mem[NewRead.addr + i - 1]

CopiedToFirstHalf ==
    \A i \in 1..NewRead.len : sliding_buffer'[i] = sliding_buffer'[per_chunk_size + i]

C29_SlidingBuffer ==
    [][ChunkRead =>
          /\ NewRead.pass = "overlap" => (OverlapTail /\ ChunkInSecondHalf)
          /\ (reads # <<>> /\ LastRead.pass = "none") => NewRead.pass # "overlap"
          /\ current' < end => CopiedToFirstHalf]_vars

\* a failed chunk, copied like any other, and later a chunk scanned through
\* the overlap view
C29_Witness ==
    /\ \E k \in 1..Len(reads) : reads[k].pass = "none" /\ reads[k].addr + reads[k].len < end
    /\ \E k \in 1..Len(reads) : reads[k].pass = "overlap"

(* C30 *)

\* the chunks read so far are contiguous, each of a length in 1..chunk_size,
\* the first starting at the page start of the region start, the last ending
\* at current; after the return they end at the region end
ChunksCover ==
    /\ \A k \in 1..Len(reads) : reads[k].len >= 1 /\ reads[k].len <= per_chunk_size
    /\ \A k \in 1..(Len(reads) - 1) : reads[k + 1].addr = reads[k].addr + reads[k].len
    /\ reads # <<>> =>
           /\ reads[1].addr = (start \div PAGE_SIZE) * PAGE_SIZE
           /\ reads[Len(reads)].addr + reads[Len(reads)].len = current
           /\ current <= end
    /\ pc = "done" => (reads # <<>> /\ current = end)

\* every step of the loop is an iteration that moves current towards end,
\* or the return
Progresses == (pc' = "loop" /\ current' > current /\ current' <= end) \/ (pc' = "done" /\ current >= end)

\* range > chunk_size is the configuration error of group queries
Configured == per_chunk_size >= query.range

\* C30 as stated: for every chunk_size >= 1 the chunk loop of
\* search_region_group terminates whatever the read outcomes, the chunks it
\* reads are contiguous, each of a length in 1..chunk_size and read once, from
\* the page start of the region start to the region end, and no iteration
\* leaves current in place.
C30_AnyChunkSize == []ChunksCover /\ [][Progresses]_vars /\ <>(pc = "done")

\* C30 amended: for every chunk_size >= the range of the query the chunk loop
\* of search_region_group terminates whatever the read outcomes, the chunks it
\* reads are contiguous, each of a length in 1..chunk_size and read once, from
\* the page start of the region start to the region end, and no iteration
\* leaves current in place.
C30_ChunkLoop ==
    /\ [](Configured => ChunksCover)
    /\ [][Configured => Progresses]_vars
    /\ Configured ~> (pc = "done")

\* a scan of a region that starts inside a page, done after three or more
\* chunks, one of them failed, the last one short
C30_Witness ==
    /\ pc = "done"
    /\ Configured
    /\ start % PAGE_SIZE # 0
    /\ Len(reads) >= 3
    /\ \E k \in 1..Len(reads) : reads[k].kind = "err"
    /\ reads[Len(reads)].len < per_chunk_size

====
